---- MODULE Spec2Model ----
(***************************************************************************)
(* A model of update_state_list (gbabineau/UpdateStateList):               *)
(*   get_matching_taxon  - exact / base-name prefix matcher                *)
(*   update_state_list   - the per-row pass with the subspecies offset     *)
(*   create_output_file  - the sort and the csv file written               *)
(*   ebird_taxonomy      - the taxonomy cache file                         *)
(*   generate_html, generate_docx - the numbering of the rendered rows     *)
(*                                                                         *)
(* Strings are sequences of one-character strings.  Python dicts are       *)
(* records whose DOMAIN is the set of keys present.  taxonOrder and the    *)
(* offset counter are kept in hundredths (200.01 is 20001), so the         *)
(* arithmetic is exact; binary floating-point rounding is not modelled.    *)
(***************************************************************************)
EXTENDS Integers, Sequences, FiniteSets, TLC

VARIABLES
    pc,                 \* position in update_state_list / the matcher harness
    taxonomy,           \* update_state_list: the filtered taxonomy (line 175)
    birds_data,         \* update_state_list: the rows read from the input file
    i,                  \* index of the next row of the for loop (line 179)
    updated_bird_data,  \* the rows emitted so far (line 177)
    non_issf_subspecies_order_keeper,  \* the offset counter (line 178), hundredths
    log,                \* records written through logging.*
    trace,              \* history: one entry per row the loop has handled
    common_name,        \* get_matching_taxon called alone: its argument
    result,             \* a function called alone: its return value
    provider,           \* what get_taxonomy.ebird_taxonomy returns (line 83)
    output_file,        \* create_output_file: the file "..._updated.csv"
    cache_dir,          \* get_taxonomy: whether the directory .cache exists
    cache_file,         \* get_taxonomy: the file .cache/taxonomy.json
    calls,              \* history: one entry per call of ebird_taxonomy
    html,               \* generate_html: its locals and the rows written so far
    docx                \* generate_docx: its locals and the table rows so far

cache == <<cache_dir, cache_file, calls>>
renderers == <<html, docx>>

vars == <<pc, taxonomy, birds_data, i, updated_bird_data,
          non_issf_subspecies_order_keeper, log, trace, common_name, result,
          provider, output_file, cache, renderers>>

\* a file that does not exist
Absent == [absent |-> TRUE]

\* the other programs of the package are not running
NoCacheUse == cache_dir = FALSE /\ cache_file = Absent /\ calls = <<>>
NoRendering == html = [pc |-> "idle"] /\ docx = [pc |-> "idle"]

(***************************************************************************)
(* Bounds and input pools                                                  *)
(***************************************************************************)
MaxNameLen == 2     \* longest lookup name given to the matcher alone
MaxTaxa == 2        \* longest taxonomy
MaxRows == 3        \* longest input file
OrderStep == 100    \* taxonOrder of the k-th provider record is k * OrderStep (1.00)
LongRun == 101      \* longest run of subspecies rows of one species in an input file

Letters == {"a", "b"}
Whitespace == {" "}
Chars == Letters \cup Whitespace \cup {"-", "(", "'"}

SeqsUpTo(S, n) == UNION {[1..k -> S] : k \in 0..n}

Names == SeqsUpTo(Chars, MaxNameLen)

\* names of the records the matcher is tried on alone: two species, a form
\* written with a parenthesis, a name with a hyphen, one with a leading blank,
\* one that is only a parenthesis
TaxonNames == {<<"a">>, <<"b">>, <<"a", "(">>, <<"a", "-">>, <<" ", "a">>, <<"(">>}
Categories == {"species", "issf"}
MatchTaxa == TaxonNames \X Categories

\* <<comName, category>> of the records the pass is run on
PassTaxa == {<<<<"a">>, "species">>, <<<<"b">>, "species">>,
             <<<<"b">>, "issf">>, <<<<"a", "(">>, "issf">>}

\* the text of a "State Status" cell: "(1)", "(4)"
Status(d) == <<"(", d, ")">>

Statuses == {Status("1")}

\* <<comName, "Sort as">> of the input rows; NoSortAs is a row without the column
NoSortAs == <<"<none>">>
PassRows == {<<<<"a">>, NoSortAs>>, <<<<"b">>, NoSortAs>>, <<<<"a", "(">>, NoSortAs>>,
             <<<<"a", "(">>, <<"a">>>>, <<<<"b">>, <<"a", "(">>>>, <<<<"b">>, <<>>>>}

DigitChars == <<"0", "1", "2", "3", "4", "5", "6", "7", "8", "9">>

\* the k-th provider record: its texts end in the digit k
TaxonRecord(k, name, cat) ==
    [comName |-> name, sciName |-> <<"s", DigitChars[k + 1]>>,
     speciesCode |-> <<"c", DigitChars[k + 1]>>,
     order |-> <<"o", DigitChars[k + 1]>>, familyComName |-> <<"f", DigitChars[k + 1]>>,
     taxonOrder |-> k * OrderStep, category |-> cat]

TaxonomiesOver(pool) ==
    UNION {{[k \in 1..n |-> TaxonRecord(k, t[k][1], t[k][2])] : t \in [1..n -> pool]} :
               n \in 0..MaxTaxa}

InputRow(r, status) ==
    IF r[2] = NoSortAs
    THEN [comName |-> r[1], State_Status |-> status]
    ELSE [comName |-> r[1], State_Status |-> status, Sort_as |-> r[2]]

InputRows == {InputRow(r, status) : r \in PassRows, status \in Statuses}

(***************************************************************************)
(* Python helpers                                                          *)
(***************************************************************************)
None == 0           \* "no record": taxonomy indexes start at 1

\* dict.get(key): <<value>> when the key is present, <<>> for Python's None
get(d, key) == IF key \in DOMAIN d THEN <<d[key]>> ELSE <<>>

\* str.startswith
startswith(s, prefix) ==
    /\ Len(prefix) <= Len(s)
    /\ SubSeq(s, 1, Len(prefix)) = prefix

\* the character class [a-zA-Z\s\-] whose complement splits the name
IsNameChar(c) == c \in Letters \cup Whitespace \cup {"-"}

\* re.split(r"[^a-zA-Z\s\-]", s)[0]: everything before the first other character
RECURSIVE FirstPiece(_)
FirstPiece(s) ==
    IF s = <<>> \/ ~IsNameChar(Head(s)) THEN <<>>
    ELSE <<Head(s)>> \o FirstPiece(Tail(s))

RECURSIVE lstrip(_)
lstrip(s) ==
    IF s # <<>> /\ Head(s) \in Whitespace THEN lstrip(Tail(s)) ELSE s

RECURSIVE rstrip(_)
rstrip(s) ==
    IF s # <<>> /\ s[Len(s)] \in Whitespace THEN rstrip(SubSeq(s, 1, Len(s) - 1)) ELSE s

\* str.strip() removes whitespace at both ends
\* faulty variant: only the trailing whitespace is removed
strip_trailing(s) == rstrip(s)

strip(s) == rstrip(lstrip(s))

base_name(name) == strip(FirstPiece(name))

\* next((t for t in taxonomy if ...), None): hits are the indexes of the records
\* that pass the generator's test, the first of them is returned
next(hits) ==
    IF hits = {} THEN None ELSE CHOOSE k \in hits : \A j \in hits : k <= j

(***************************************************************************)
(* get_matching_taxon (update_state_list.py 116-155)                       *)
(***************************************************************************)
\* faulty variant: the exact step is skipped
get_matching_taxon_prefix_only(name, taxa) ==
    LET base == base_name(name)
        approx == next({k \in DOMAIN taxa : startswith(taxa[k].comName, base)})
    IN  [matching_taxon |-> approx, non_issf_subspecies |-> TRUE,
         base_name |-> base,
         logged |-> IF approx = None
                    THEN <<[level |-> "error", msg |-> "No match found for",
                            args |-> <<name, base>>]>>
                    ELSE <<>>]

\* faulty variant: an empty base name is taken to match nothing
get_matching_taxon_no_empty_base(name, taxa) ==
    LET exact == next({k \in DOMAIN taxa : taxa[k].comName = name})
        base == base_name(name)
        approx == IF base = <<>> THEN None
                  ELSE next({k \in DOMAIN taxa : startswith(taxa[k].comName, base)})
    IN  IF exact # None
        THEN [matching_taxon |-> exact, non_issf_subspecies |-> FALSE,
              base_name |-> base, logged |-> <<>>]
        ELSE [matching_taxon |-> approx, non_issf_subspecies |-> TRUE,
              base_name |-> base,
              logged |-> IF approx = None
                         THEN <<[level |-> "error", msg |-> "No match found for",
                                 args |-> <<name, base>>]>>
                         ELSE <<>>]

\* faulty variant: an approximate match is reported with a warning
get_matching_taxon_warns(name, taxa) ==
    LET exact == next({k \in DOMAIN taxa : taxa[k].comName = name})
        base == base_name(name)
        approx == next({k \in DOMAIN taxa : startswith(taxa[k].comName, base)})
    IN  IF exact # None
        THEN [matching_taxon |-> exact, non_issf_subspecies |-> FALSE,
              base_name |-> base, logged |-> <<>>]
        ELSE [matching_taxon |-> approx, non_issf_subspecies |-> TRUE,
              base_name |-> base,
              logged |-> IF approx = None
                         THEN <<[level |-> "error", msg |-> "No match found for",
                                 args |-> <<name, base>>]>>
                         ELSE <<[level |-> "warning", msg |-> "Approximate match for",
                                 args |-> <<name, base, taxa[approx].comName>>]>>]

get_matching_taxon(name, taxa) ==
    LET exact == next({k \in DOMAIN taxa : taxa[k].comName = name})
        base == base_name(name)
        approx == next({k \in DOMAIN taxa : startswith(taxa[k].comName, base)})
    IN  IF exact # None
        THEN [matching_taxon |-> exact, non_issf_subspecies |-> FALSE,
              base_name |-> base, logged |-> <<>>]
        ELSE [matching_taxon |-> approx, non_issf_subspecies |-> TRUE,
              base_name |-> base,
              logged |-> IF approx = None
                         THEN <<[level |-> "error", msg |-> "No match found for",
                                 args |-> <<name, base>>]>>
                         ELSE <<>>]

(***************************************************************************)
(* get_taxonomy_of_interest (update_state_list.py 68-90)                   *)
(***************************************************************************)
\* the test of line 88 on one record; a record without category is kept
\* faulty variant: only hybrids are recognised
OfInterest_hybrid_only(t) == get(t, "category") # <<"hybrid">>

OfInterest(t) ==
    get(t, "category") # <<"hybrid">> /\ get(t, "category") # <<"domestic">>

\* faulty variant: records are removed from the list while it is iterated, so
\* the record that follows a removed one is never looked at
RECURSIVE get_taxonomy_of_interest_in_place(_)
get_taxonomy_of_interest_in_place(fetched) ==
    IF fetched = <<>> THEN <<>>
    ELSE IF OfInterest(Head(fetched))
    THEN <<Head(fetched)>> \o get_taxonomy_of_interest_in_place(Tail(fetched))
    ELSE IF Len(fetched) = 1 THEN <<>>
    ELSE <<fetched[2]>> \o get_taxonomy_of_interest_in_place(Tail(Tail(fetched)))

\* lines 85-89: the list comprehension over what the provider returned
get_taxonomy_of_interest(fetched) == SelectSeq(fetched, OfInterest)

(***************************************************************************)
(* update_state_list (update_state_list.py 158-216)                        *)
(***************************************************************************)
OffsetStep == 1     \* the 0.01 of line 204, in hundredths

Range(s) == {s[k] : k \in DOMAIN s}

\* the dict d with d[key] = value set
SetKey(d, key, value) == (key :> value) @@ d

\* lines 180-183: a truthy "Sort as" wins over comName
\* faulty variant: the override is ignored
bird_for_search_comName(bird) ==
    IF "comName" \in DOMAIN bird THEN bird.comName ELSE <<>>

bird_for_search(bird) ==
    LET sort_as == get(bird, "Sort_as")
    IN  IF sort_as # <<>> /\ sort_as[1] # <<>> THEN sort_as[1]
        ELSE IF "comName" \in DOMAIN bird THEN bird.comName ELSE <<>>

\* line 189: logging.error("No matching taxon for %s", bird.get("comName"))
\* faulty variant: the lookup name is logged
NoMatchingTaxonLog_lookup(bird) ==
    <<[level |-> "error", msg |-> "No matching taxon for",
       args |-> <<bird_for_search(bird)>>]>>

NoMatchingTaxonLog(bird) ==
    <<[level |-> "error", msg |-> "No matching taxon for",
       args |-> get(bird, "comName")]>>

\* lines 191-193: "(" in bird.get("comName"): the row's own comName is read
\* faulty variant: the lookup name is read
HasParen_lookup(bird) == "(" \in Range(bird_for_search(bird))

HasParen(bird) == "(" \in Range(bird.comName)

\* faulty variant: familyComName is left out of the list
CopiedFields_short == <<"sciName", "speciesCode", "order", "taxonOrder">>

CopiedFields == <<"sciName", "speciesCode", "order", "familyComName", "taxonOrder">>

\* lines 194-201
\* faulty variant: "order" is filled from the record's familyComName
RECURSIVE CopyFields_mixed(_, _, _)
CopyFields_mixed(bird, taxon, fields) ==
    IF fields = <<>> THEN bird
    ELSE CopyFields_mixed(
             SetKey(bird, Head(fields),
                    IF Head(fields) = "order" THEN taxon.familyComName
                    ELSE taxon[Head(fields)]),
             taxon, Tail(fields))

RECURSIVE CopyFields(_, _, _)
CopyFields(bird, taxon, fields) ==
    IF fields = <<>> THEN bird
    ELSE CopyFields(SetKey(bird, Head(fields), taxon[Head(fields)]), taxon, Tail(fields))

\* lines 203-205: the counter after a non-ISSF subspecies row
\* faulty variant: the counter does not accumulate
NextKeeper_restart(keeper) == OffsetStep

NextKeeper(keeper) == keeper + OffsetStep

\* lines 206-208: bird["taxonOrder"] + non_issf_subspecies_order_keeper
\* faulty variant: the counter is subtracted
OffsetOrder_below(taxonOrder, keeper) == taxonOrder - keeper

OffsetOrder(taxonOrder, keeper) == taxonOrder + keeper

\* line 211: the counter after any other matched row
\* faulty variant: the counter is not reset
ResetKeeper_kept(keeper) == keeper

ResetKeeper(keeper) == 0

\* line 212
\* faulty variant: the category is not read
IsIssf_never(taxon) == FALSE

IsIssf(taxon) == get(taxon, "category") = <<"issf">>

\* lines 188-189: the iteration of a row that matched nothing
\* faulty variant: an unmatched row resets the counter
LoopUnmatched_resets(bird, lookup, m, keeper) ==
    [appended |-> FALSE, bird |-> bird, keeper |-> 0,
     lookup |-> lookup, match |-> m, non_issf_subspecies |-> FALSE,
     logged |-> m.logged \o NoMatchingTaxonLog(bird)]

\* faulty variant: the append is not under the else, the bare row is emitted
LoopUnmatched_appends(bird, lookup, m, keeper) ==
    [appended |-> TRUE, bird |-> bird, keeper |-> keeper,
     lookup |-> lookup, match |-> m, non_issf_subspecies |-> FALSE,
     logged |-> m.logged \o NoMatchingTaxonLog(bird)]

LoopUnmatched(bird, lookup, m, keeper) ==
    [appended |-> FALSE, bird |-> bird, keeper |-> keeper,
     lookup |-> lookup, match |-> m, non_issf_subspecies |-> FALSE,
     logged |-> m.logged \o NoMatchingTaxonLog(bird)]

\* lines 190-214: the iteration of a row that matched taxon
LoopMatched(bird, lookup, m, taxon, keeper) ==
    LET flag == m.non_issf_subspecies \/ HasParen(bird)
        copied == CopyFields(bird, taxon, CopiedFields)
    IN  IF flag
        THEN [appended |-> TRUE,
              bird |-> SetKey(SetKey(copied, "taxonOrder",
                                     OffsetOrder(copied.taxonOrder, NextKeeper(keeper))),
                              "subspecies", TRUE),
              keeper |-> NextKeeper(keeper),
              lookup |-> lookup, match |-> m, non_issf_subspecies |-> TRUE,
              logged |-> m.logged]
        ELSE [appended |-> TRUE,
              bird |-> SetKey(copied, "subspecies", IsIssf(taxon)),
              keeper |-> ResetKeeper(keeper),
              lookup |-> lookup, match |-> m, non_issf_subspecies |-> FALSE,
              logged |-> m.logged]

\* lines 180-214, one iteration of the for loop, as a function of the row, the
\* taxonomy and the counter: what is logged, whether and what is appended, and
\* the counter afterwards
\* the matcher is called once (line 185) and the iteration works on its result
LoopBody(bird, taxa, keeper) ==
    LET lookup == bird_for_search(bird)
        Iteration(m) ==
            IF m.matching_taxon = None
            THEN LoopUnmatched(bird, lookup, m, keeper)
            ELSE LoopMatched(bird, lookup, m, taxa[m.matching_taxon], keeper)
    IN  CHOOSE r \in {Iteration(m) : m \in {get_matching_taxon(lookup, taxa)}} : TRUE

(***************************************************************************)
(* create_output_file (update_state_list.py 21-65): the sort               *)
(***************************************************************************)
\* the sort key of lines 41-44; False sorts before True
SortKey(row) ==
    <<IF get(row, "State_Status") = <<Status("4")>> THEN 1 ELSE 0,
      IF "taxonOrder" \in DOMAIN row THEN row.taxonOrder ELSE 0>>

\* faulty variant: taxonOrder is compared as text, digit by digit
RECURSIVE Digits(_)
Digits(n) == IF n < 10 THEN <<n>> ELSE Append(Digits(n \div 10), n % 10)

RECURSIVE TextLess(_, _)
TextLess(s, t) ==
    IF t = <<>> THEN FALSE
    ELSE IF s = <<>> THEN TRUE
    ELSE IF Head(s) # Head(t) THEN Head(s) < Head(t)
    ELSE TextLess(Tail(s), Tail(t))

KeyLess_text(a, b) ==
    \/ SortKey(a)[1] < SortKey(b)[1]
    \/ SortKey(a)[1] = SortKey(b)[1]
           /\ TextLess(Digits(SortKey(a)[2]), Digits(SortKey(b)[2]))

\* faulty variant: only taxonOrder is compared (the sort of line 46)
KeyLess_order_only(a, b) == SortKey(a)[2] < SortKey(b)[2]

KeyLess(a, b) ==
    \/ SortKey(a)[1] < SortKey(b)[1]
    \/ SortKey(a)[1] = SortKey(b)[1] /\ SortKey(a)[2] < SortKey(b)[2]

\* the place list.sort gives rows[j]: behind every row with a smaller key and
\* behind the rows with an equal key that stand before it (the sort is stable)
\* faulty variant: rows with an equal key come out in reverse order
Place_reversed(rows, j) ==
    Cardinality({k \in DOMAIN rows :
                     \/ KeyLess(rows[k], rows[j])
                     \/ ~KeyLess(rows[j], rows[k]) /\ k >= j})

Place(rows, j) ==
    Cardinality({k \in DOMAIN rows :
                     \/ KeyLess(rows[k], rows[j])
                     \/ ~KeyLess(rows[j], rows[k]) /\ k <= j})

\* list.sort(key=...): every row at its place
sort(rows) ==
    LET place == [j \in DOMAIN rows |-> Place(rows, j)]
    IN  [p \in DOMAIN rows |-> rows[CHOOSE j \in DOMAIN rows : place[j] = p]]

(***************************************************************************)
(* create_output_file (update_state_list.py 48-64): the csv module         *)
(***************************************************************************)
\* str(n) of a non-negative int
RECURSIVE DecimalText(_)
DecimalText(n) ==
    IF n < 10 THEN <<DigitChars[n + 1]>>
    ELSE DecimalText(n \div 10) \o <<DigitChars[(n % 10) + 1]>>

\* repr of a float given in hundredths: 100 is "1.0", 110 is "1.1", 101 is "1.01"
FloatText(h) ==
    DecimalText(h \div 100) \o <<".">> \o
    (IF h % 10 = 0 THEN <<DigitChars[((h % 100) \div 10) + 1]>>
     ELSE <<DigitChars[((h % 100) \div 10) + 1], DigitChars[(h % 10) + 1]>>)

\* str(True), str(False)
BoolText(b) == IF b THEN <<"T", "r", "u", "e">> ELSE <<"F", "a", "l", "s", "e">>

\* line 51-61; "State_Status" and "Sort_as" are the columns "State Status", "Sort as"
fieldnames ==
    <<"comName", "sciName", "State_Status", "speciesCode", "order",
      "familyComName", "taxonOrder", "subspecies", "Sort_as">>

\* what the writer puts in the cell: "" for a missing key (restval), str() of a
\* number or a bool, the string itself otherwise
CellText(row, key) ==
    IF key \notin DOMAIN row THEN <<>>
    ELSE IF key = "taxonOrder" THEN FloatText(row[key])
    ELSE IF key = "subspecies" THEN BoolText(row[key])
    ELSE row[key]

RECURSIVE DoubleQuotes(_)
DoubleQuotes(text) ==
    IF text = <<>> THEN <<>>
    ELSE (IF Head(text) = "\"" THEN <<"\"", "\"">> ELSE <<Head(text)>>)
         \o DoubleQuotes(Tail(text))

\* QUOTE_MINIMAL: a cell with a delimiter, a quote or a line end is quoted
\* faulty variant: the quotes inside a quoted cell are not doubled
Quoted_plain(text) ==
    IF Range(text) \cap {",", "\"", "\n", "\r"} = {} THEN text
    ELSE <<"\"">> \o text \o <<"\"">>

Quoted(text) ==
    IF Range(text) \cap {",", "\"", "\n", "\r"} = {} THEN text
    ELSE <<"\"">> \o DoubleQuotes(text) \o <<"\"">>

\* the cells of one line, joined by the delimiter
RECURSIVE JoinCells(_)
JoinCells(cells) ==
    IF cells = <<>> THEN <<>>
    ELSE IF Len(cells) = 1 THEN cells[1]
    ELSE cells[1] \o <<",">> \o JoinCells(Tail(cells))

\* DictWriter.writerow: one line of the file
LineOf(row) == JoinCells([k \in DOMAIN fieldnames |-> Quoted(CellText(row, fieldnames[k]))])

\* the file of line 49 before anything is written
EmptyFile == [header |-> <<>>, lines |-> <<>>]

\* line 64: the number of rows writerows writes before it returns or raises
WrittenRows(sorted) ==
    LET extras == {k \in DOMAIN sorted : ~(DOMAIN sorted[k] \subseteq Range(fieldnames))}
    IN  IF extras = {} THEN Len(sorted)
        ELSE (CHOOSE k \in extras : \A j \in extras : k <= j) - 1

\* lines 40-64: the list is sorted in place; an empty list leaves the file
\* empty; otherwise the header and the rows are written, and the first row with
\* a key outside fieldnames raises ValueError (extrasaction is 'raise') after
\* the rows before it were written
create_output_file(rows) ==
    LET Write(sorted) ==
            [rows |-> sorted,
             file |-> IF sorted = <<>> THEN EmptyFile
                      ELSE [header |-> fieldnames,
                            lines |-> [k \in 1..WrittenRows(sorted) |-> LineOf(sorted[k])]],
             raised |-> WrittenRows(sorted) < Len(sorted)]
    IN  CHOOSE c \in {Write(sorted) : sorted \in {sort(rows)}} : TRUE

\* the csv reader on one line: cells are split at the delimiters outside
\* quotes, a doubled quote inside a quoted cell is one quote
RECURSIVE ReadCells(_, _, _, _)
ReadCells(line, cells, cell, in_quotes) ==
    IF line = <<>> THEN Append(cells, cell)
    ELSE IF in_quotes
         THEN IF Head(line) = "\""
              THEN IF Len(line) > 1 /\ line[2] = "\""
                   THEN ReadCells(SubSeq(line, 3, Len(line)), cells, Append(cell, "\""), TRUE)
                   ELSE ReadCells(Tail(line), cells, cell, FALSE)
              ELSE ReadCells(Tail(line), cells, Append(cell, Head(line)), TRUE)
         ELSE IF Head(line) = "," THEN ReadCells(Tail(line), Append(cells, cell), <<>>, FALSE)
         ELSE IF Head(line) = "\"" /\ cell = <<>> THEN ReadCells(Tail(line), cells, cell, TRUE)
         ELSE ReadCells(Tail(line), cells, Append(cell, Head(line)), FALSE)

\* list(csv.DictReader(f)): one dict of strings per line, keyed by the header
DictReader(file) ==
    [k \in DOMAIN file.lines |->
        LET cells == ReadCells(file.lines[k], <<>>, <<>>, FALSE)
        IN  [key \in Range(file.header) |->
                cells[CHOOSE c \in DOMAIN file.header : file.header[c] = key]]]

(***************************************************************************)
(* The pass as a state machine                                             *)
(***************************************************************************)
RowLists == SeqsUpTo(InputRows, MaxRows)

Init ==
    /\ pc = "start"
    /\ provider \in TaxonomiesOver(PassTaxa)
    /\ taxonomy = <<>>
    /\ birds_data \in RowLists
    /\ i = 1
    /\ updated_bird_data = <<>>
    /\ non_issf_subspecies_order_keeper = 0
    /\ log = <<>>
    /\ trace = <<>>
    /\ common_name = <<>>
    /\ result = <<>>
    /\ output_file = Absent
    /\ NoCacheUse
    /\ NoRendering

\* lines 174-178: taxonomy is what get_taxonomy_of_interest makes of the
\* provider's list (line 175), birds_data what read_input_file returned
\* (line 176); the loop starts
Start ==
    /\ pc = "start"
    /\ pc' = "loop"
    /\ i' = 1
    /\ updated_bird_data' = <<>>
    /\ non_issf_subspecies_order_keeper' = 0
    /\ taxonomy' = get_taxonomy_of_interest(provider)
    /\ UNCHANGED <<birds_data, log, trace, common_name, result, provider>>
    /\ UNCHANGED <<output_file, cache, renderers>>

TraceEntry(r, bird) ==
    [input |-> bird, lookup |-> r.lookup, matching_taxon |-> r.match.matching_taxon,
     approximate |-> r.match.non_issf_subspecies, base_name |-> r.match.base_name,
     appended |-> r.appended, non_issf_subspecies |-> r.non_issf_subspecies,
     keeper |-> r.keeper]

\* lines 188-189: the row matched nothing: logged, not appended
\* faulty variant: the unmatched row ends the pass, line 216 is never reached
RowUnmatched_aborts ==
    /\ pc = "loop"
    /\ i <= Len(birds_data)
    /\ \E r \in {LoopBody(birds_data[i], taxonomy, non_issf_subspecies_order_keeper)} :
           /\ ~r.appended
           /\ log' = log \o r.logged
    /\ pc' = "aborted"
    /\ UNCHANGED <<taxonomy, birds_data, i, updated_bird_data,
                   non_issf_subspecies_order_keeper, trace, common_name, result,
                   provider>>
    /\ UNCHANGED <<output_file, cache, renderers>>

RowUnmatched ==
    /\ pc = "loop"
    /\ i <= Len(birds_data)
    /\ \E r \in {LoopBody(birds_data[i], taxonomy, non_issf_subspecies_order_keeper)} :
           /\ ~r.appended
           /\ log' = log \o r.logged
           /\ non_issf_subspecies_order_keeper' = r.keeper
           /\ trace' = Append(trace, TraceEntry(r, birds_data[i]))
    /\ i' = i + 1
    /\ UNCHANGED <<pc, taxonomy, birds_data, updated_bird_data, common_name, result,
                   provider>>
    /\ UNCHANGED <<output_file, cache, renderers>>

\* lines 190-214: the row matched: enriched in place and appended
RowMatched ==
    /\ pc = "loop"
    /\ i <= Len(birds_data)
    /\ \E r \in {LoopBody(birds_data[i], taxonomy, non_issf_subspecies_order_keeper)} :
           /\ r.appended
           /\ birds_data' = [birds_data EXCEPT ![i] = r.bird]
           /\ updated_bird_data' = Append(updated_bird_data, r.bird)
           /\ log' = log \o r.logged
           /\ non_issf_subspecies_order_keeper' = r.keeper
           /\ trace' = Append(trace, TraceEntry(r, birds_data[i]))
    /\ i' = i + 1
    /\ UNCHANGED <<pc, taxonomy, common_name, result, provider>>
    /\ UNCHANGED <<output_file, cache, renderers>>

\* line 216: the loop is over, create_output_file sorts the list in place and
\* writes the file
Finish ==
    /\ pc = "loop"
    /\ i > Len(birds_data)
    /\ \E c \in {create_output_file(updated_bird_data)} :
           /\ pc' = IF c.raised THEN "raised" ELSE "written"
           /\ updated_bird_data' = c.rows
           /\ output_file' = c.file
    /\ UNCHANGED <<cache, renderers>>
    /\ UNCHANGED <<taxonomy, birds_data, i, non_issf_subspecies_order_keeper,
                   log, trace, common_name, result, provider>>

Next == Start \/ RowUnmatched \/ RowMatched \/ Finish

Spec == Init /\ [][Next]_vars

\* the pass is one sequential call: while a step can be taken, one is taken
SpecLive == Init /\ [][Next]_vars /\ WF_vars(Next)

(***************************************************************************)
(* get_matching_taxon called alone                                         *)
(***************************************************************************)
InitMatch ==
    /\ pc = "call"
    /\ taxonomy \in TaxonomiesOver(MatchTaxa)
    /\ provider = <<>>
    /\ common_name \in Names
    /\ result = <<>>
    /\ birds_data = <<>>
    /\ i = 1
    /\ updated_bird_data = <<>>
    /\ non_issf_subspecies_order_keeper = 0
    /\ log = <<>>
    /\ trace = <<>>
    /\ output_file = Absent
    /\ NoCacheUse
    /\ NoRendering

CallMatcher ==
    /\ pc = "call"
    /\ pc' = "returned"
    /\ result' = <<get_matching_taxon(common_name, taxonomy)>>
    /\ log' = log \o get_matching_taxon(common_name, taxonomy).logged
    /\ UNCHANGED <<taxonomy, birds_data, i, updated_bird_data,
                   non_issf_subspecies_order_keeper, trace, common_name, provider>>
    /\ UNCHANGED <<output_file, cache, renderers>>

NextMatch == CallMatcher

SpecMatch == InitMatch /\ [][NextMatch]_vars

(***************************************************************************)
(* get_taxonomy_of_interest called alone                                   *)
(***************************************************************************)
\* categories of the provider's records; NoCategory is a record without the key
NoCategory == "<none>"
ProviderCategories == {"species", "issf", "hybrid", "domestic", "slash", NoCategory}

ProviderRecord(k, name, cat) ==
    IF cat = NoCategory
    THEN [key \in DOMAIN TaxonRecord(k, name, cat) \ {"category"} |->
              TaxonRecord(k, name, cat)[key]]
    ELSE TaxonRecord(k, name, cat)

FetchedLists ==
    UNION {{[k \in 1..n |-> ProviderRecord(k, t[k][1], t[k][2])] :
                t \in [1..n -> {<<"a">>, <<"b">>} \X ProviderCategories]} :
               n \in 0..MaxTaxa}

InitFilter ==
    /\ pc = "fetched"
    /\ provider \in FetchedLists
    /\ taxonomy = <<>>
    /\ result = <<>>
    /\ common_name = <<>>
    /\ birds_data = <<>>
    /\ i = 1
    /\ updated_bird_data = <<>>
    /\ non_issf_subspecies_order_keeper = 0
    /\ log = <<>>
    /\ trace = <<>>
    /\ output_file = Absent
    /\ NoCacheUse
    /\ NoRendering

\* lines 83-90: the provider's list is fetched, filtered and returned
CallFilter ==
    /\ pc = "fetched"
    /\ pc' = "filtered"
    /\ taxonomy' = get_taxonomy_of_interest(provider)
    /\ result' = <<get_taxonomy_of_interest(provider)>>
    /\ UNCHANGED <<birds_data, i, updated_bird_data, non_issf_subspecies_order_keeper,
                   log, trace, common_name, provider>>
    /\ UNCHANGED <<output_file, cache, renderers>>

NextFilter == CallFilter

SpecFilter == InitFilter /\ [][NextFilter]_vars

(***************************************************************************)
(* The pass on a provider list with hybrid and domestic records, input     *)
(* rows with and without the historical status "(4)", and taxonOrder       *)
(* values of 9.00, 10.00, ... (one digit and two digits before the point)  *)
(***************************************************************************)
OutputTaxa == {<<<<"a">>, "species">>, <<<<"b">>, "species">>,
               <<<<"a">>, "hybrid">>, <<<<"b">>, "domestic">>}

OutputTaxonomies ==
    {[k \in DOMAIN t |-> [t[k] EXCEPT !.taxonOrder = (k + 8) * OrderStep]] :
         t \in TaxonomiesOver(OutputTaxa)}

OutputRows ==
    {[comName |-> n, State_Status |-> status] :
         n \in {<<"a">>, <<"b">>, <<"a", "(">>}, status \in {Status("1"), Status("4")}}

InitOutput ==
    /\ pc = "start"
    /\ provider \in OutputTaxonomies
    /\ taxonomy = <<>>
    /\ birds_data \in SeqsUpTo(OutputRows, MaxRows)
    /\ i = 1
    /\ updated_bird_data = <<>>
    /\ non_issf_subspecies_order_keeper = 0
    /\ log = <<>>
    /\ trace = <<>>
    /\ common_name = <<>>
    /\ result = <<>>
    /\ output_file = Absent
    /\ NoCacheUse
    /\ NoRendering

SpecOutput == InitOutput /\ [][Next]_vars

\* the pass on a long file: a run of rows "a(" of the first of two species, then
\* nothing, or a row of the second species, or a row no record matches and a
\* row of the second species
NestTaxonomy == <<TaxonRecord(1, <<"a">>, "species"), TaxonRecord(2, <<"b">>, "species")>>

SubspeciesRun(n) == [k \in 1..n |-> InputRow(<<<<"a", "(">>, NoSortAs>>, Status("1"))]

NestTails ==
    {<<>>,
     <<InputRow(<<<<"b">>, NoSortAs>>, Status("1"))>>,
     <<InputRow(<<<<"-">>, NoSortAs>>, Status("1")), InputRow(<<<<"b">>, NoSortAs>>, Status("1"))>>}

NestLists == {SubspeciesRun(n) \o tail : n \in (LongRun - 2)..LongRun, tail \in NestTails}

InitNest ==
    /\ pc = "start"
    /\ provider = NestTaxonomy
    /\ taxonomy = <<>>
    /\ birds_data \in NestLists
    /\ i = 1
    /\ updated_bird_data = <<>>
    /\ non_issf_subspecies_order_keeper = 0
    /\ log = <<>>
    /\ trace = <<>>
    /\ common_name = <<>>
    /\ result = <<>>
    /\ output_file = Absent
    /\ NoCacheUse
    /\ NoRendering

SpecNest == InitNest /\ [][Next]_vars

(***************************************************************************)
(* The pass followed by a reader of the file it wrote                      *)
(***************************************************************************)
MaxCsvRows == 2     \* longest input file whose output is read back

\* texts of the provider with a delimiter and with quotes in them
CsvTexts == {<<"s">>, <<"s", ",", "t">>, <<"\"", "s", "\"", ",">>}

\* taxonOrder 1.0, 1.5 and 10.25, in hundredths
CsvOrders == {100, 150, 1025}

CsvRecord(name, text, order) ==
    [comName |-> name, sciName |-> text, speciesCode |-> <<"c">>,
     order |-> <<"o", ",">> \o text, familyComName |-> text \o <<"f">>,
     taxonOrder |-> order, category |-> "species"]

CsvTaxonomies ==
    {<<CsvRecord(<<"a">>, t, o), CsvRecord(<<"b">>, <<"s">>, 200)>> :
         t \in CsvTexts, o \in CsvOrders}

\* rows as read_input_file returns them: the three columns the pass uses, and
\* rows of a file with one more column ("notes")
CsvRows ==
    {[comName |-> <<"a">>, State_Status |-> Status("1")],
     [comName |-> <<"a", "(">>, State_Status |-> Status("1")],
     [comName |-> <<"a">>, State_Status |-> Status("4")],
     [comName |-> <<"b">>, State_Status |-> Status("1"), Sort_as |-> <<"a">>],
     [comName |-> <<"-">>, State_Status |-> Status("1")],
     [comName |-> <<"b">>, State_Status |-> Status("1"), notes |-> <<"n">>],
     [comName |-> <<"-">>, State_Status |-> Status("1"), notes |-> <<"n">>]}

InitCsv ==
    /\ pc = "start"
    /\ provider \in CsvTaxonomies
    /\ taxonomy = <<>>
    /\ birds_data \in SeqsUpTo(CsvRows, MaxCsvRows)
    /\ i = 1
    /\ updated_bird_data = <<>>
    /\ non_issf_subspecies_order_keeper = 0
    /\ log = <<>>
    /\ trace = <<>>
    /\ common_name = <<>>
    /\ result = <<>>
    /\ output_file = Absent
    /\ NoCacheUse
    /\ NoRendering

\* csv.DictReader on the file create_output_file left, whether it returned or
\* raised (the with statement of line 49 closes the file either way)
ReadBack ==
    /\ pc \in {"written", "raised"}
    /\ pc' = "parsed"
    /\ result' = DictReader(output_file)
    /\ UNCHANGED <<taxonomy, birds_data, i, updated_bird_data,
                   non_issf_subspecies_order_keeper, log, trace, common_name,
                   provider, output_file, cache, renderers>>

NextCsv == Next \/ ReadBack

SpecCsv == InitCsv /\ [][NextCsv]_vars

(***************************************************************************)
(* ebird_taxonomy (get_taxonomy.py 14-35): the taxonomy cache              *)
(***************************************************************************)
MaxCalls == 3       \* most calls of ebird_taxonomy in one behaviour
MaxFetched == 2     \* longest taxonomy the remote service returns

\* the keys of a record of the service, in the order the service sends them
JsonKeys == <<"comName", "taxonOrder">>

KeyChars(key) ==
    IF key = "comName" THEN <<"c", "o", "m", "N", "a", "m", "e">>
    ELSE <<"t", "a", "x", "o", "n", "O", "r", "d", "e", "r">>

\* json.dump of a str: quotes and backslashes are escaped
RECURSIVE Escaped(_)
Escaped(text) ==
    IF text = <<>> THEN <<>>
    ELSE (IF Head(text) \in {"\"", "\\"} THEN <<"\\", Head(text)>> ELSE <<Head(text)>>)
         \o Escaped(Tail(text))

JsonString(text) == <<"\"">> \o Escaped(text) \o <<"\"">>

Indent(n) == [k \in 1..n |-> " "]

\* one "key": value line of an object, at indent 8
JsonMember(record, key) ==
    Indent(8) \o JsonString(KeyChars(key)) \o <<":", " ">> \o
    (IF key = "taxonOrder" THEN FloatText(record[key]) ELSE JsonString(record[key]))

RECURSIVE JoinLines(_)
JoinLines(lines) ==
    IF lines = <<>> THEN <<>>
    ELSE IF Len(lines) = 1 THEN lines[1]
    ELSE lines[1] \o <<",", "\n">> \o JoinLines(Tail(lines))

JsonObject(record) ==
    Indent(4) \o <<"{", "\n">> \o
    JoinLines([k \in DOMAIN JsonKeys |-> JsonMember(record, JsonKeys[k])]) \o
    <<"\n">> \o Indent(4) \o <<"}">>

\* line 31: json.dump(taxonomy, indent=4)
json_dump(obj) ==
    IF obj = <<>> THEN <<"[", "]">>
    ELSE <<"[", "\n">> \o JoinLines([k \in DOMAIN obj |-> JsonObject(obj[k])])
         \o <<"\n", "]">>

\* line 34: json.load, a recursive-descent reader of the text
SkipSpace(t) ==
    LET n == CHOOSE n \in 0..Len(t) :
                 /\ \A k \in 1..n : t[k] \in {" ", "\n"}
                 /\ n < Len(t) => t[n + 1] \notin {" ", "\n"}
    IN  SubSeq(t, n + 1, Len(t))

\* the text after an opening quote: up to the closing quote, a backslash
\* stands for the character after it
RECURSIVE StringBody(_, _)
StringBody(t, acc) ==
    IF Head(t) = "\"" THEN [value |-> acc, rest |-> Tail(t)]
    ELSE IF Head(t) = "\\" THEN StringBody(SubSeq(t, 3, Len(t)), Append(acc, t[2]))
    ELSE StringBody(Tail(t), Append(acc, Head(t)))

DigitValue(c) == CHOOSE d \in 0..9 : DigitChars[d + 1] = c

RECURSIVE NumberOf(_)
NumberOf(digits) ==
    IF digits = <<>> THEN 0
    ELSE 10 * NumberOf(SubSeq(digits, 1, Len(digits) - 1)) + DigitValue(digits[Len(digits)])

\* float(text) in hundredths, for a text with at most two decimals
ParseFloat(text) ==
    LET dot == CHOOSE k \in DOMAIN text : text[k] = "."
        decimals == SubSeq(text, dot + 1, Len(text))
    IN  100 * NumberOf(SubSeq(text, 1, dot - 1))
        + (IF Len(decimals) = 1 THEN 10 * NumberOf(decimals) ELSE NumberOf(decimals))

NumberBody(t) ==
    LET n == CHOOSE n \in 0..Len(t) :
                 /\ \A k \in 1..n : t[k] \in Range(DigitChars) \cup {"."}
                 /\ n < Len(t) => t[n + 1] \notin Range(DigitChars) \cup {"."}
    IN  [value |-> ParseFloat(SubSeq(t, 1, n)), rest |-> SubSeq(t, n + 1, Len(t))]

JsonValue(t) == IF Head(t) = "\"" THEN StringBody(Tail(t), <<>>) ELSE NumberBody(t)

\* the members of an object after its opening brace
RECURSIVE JsonMembers(_, _)
JsonMembers(t, record) ==
    LET s == SkipSpace(t)
    IN  IF Head(s) = "}" THEN [value |-> record, rest |-> Tail(s)]
        ELSE IF Head(s) = "," THEN JsonMembers(Tail(s), record)
        ELSE LET name == StringBody(Tail(s), <<>>)
                 key == CHOOSE key \in Range(JsonKeys) : KeyChars(key) = name.value
                 v == JsonValue(SkipSpace(Tail(SkipSpace(name.rest))))
             IN  JsonMembers(v.rest, SetKey(record, key, v.value))

\* the elements of an array after its opening bracket
RECURSIVE JsonElements(_, _)
JsonElements(t, list) ==
    LET s == SkipSpace(t)
    IN  IF Head(s) = "]" THEN list
        ELSE IF Head(s) = "," THEN JsonElements(Tail(s), list)
        ELSE LET object == JsonMembers(Tail(s), <<>>)
             IN  JsonElements(object.rest, Append(list, object.value))

json_load(text) == JsonElements(Tail(SkipSpace(text)), <<>>)

\* what ebird.api.get_taxonomy does at line 29: it returns a list or raises
RemoteNames == {<<"a">>, <<"\"", "b">>, <<"\\", "n">>}
RemoteOrders == {150, 1025}
RemoteRecords == [comName : RemoteNames, taxonOrder : RemoteOrders]
RemoteTaxonomies == SeqsUpTo(RemoteRecords, MaxFetched)
RemoteResults ==
    {[raises |-> TRUE]} \cup {[raises |-> FALSE, taxonomy |-> t] : t \in RemoteTaxonomies}

\* lines 23-35 on the directory and file found; remote is what get_taxonomy
\* does if it is called
\* faulty variant: the service is asked whether or not the file is there
ebird_taxonomy_refetch(dir, file, remote) ==
    IF remote.raises
    THEN [cache_dir |-> TRUE, cache_file |-> file, fetched |-> TRUE, raised |-> TRUE,
          taxonomy |-> <<>>]
    ELSE [cache_dir |-> TRUE, cache_file |-> [text |-> json_dump(remote.taxonomy)],
          fetched |-> TRUE, raised |-> FALSE, taxonomy |-> remote.taxonomy]

ebird_taxonomy(dir, file, remote) ==
    IF file = Absent
    THEN IF remote.raises
         THEN [cache_dir |-> TRUE, cache_file |-> file, fetched |-> TRUE, raised |-> TRUE,
               taxonomy |-> <<>>]
         ELSE [cache_dir |-> TRUE, cache_file |-> [text |-> json_dump(remote.taxonomy)],
               fetched |-> TRUE, raised |-> FALSE, taxonomy |-> remote.taxonomy]
    ELSE [cache_dir |-> TRUE, cache_file |-> file, fetched |-> FALSE, raised |-> FALSE,
          taxonomy |-> json_load(file.text)]

\* the cache is as an earlier run of the program left it: nothing, the
\* directory alone (the fetch of that run failed), or the directory and a file
InitCache ==
    /\ pc = "cache"
    /\ \/ cache_dir \in BOOLEAN /\ cache_file = Absent
       \/ cache_dir = TRUE /\ cache_file \in {[text |-> json_dump(t)] : t \in RemoteTaxonomies}
    /\ calls = <<>>
    /\ provider = <<>>
    /\ taxonomy = <<>>
    /\ birds_data = <<>>
    /\ i = 1
    /\ updated_bird_data = <<>>
    /\ non_issf_subspecies_order_keeper = 0
    /\ log = <<>>
    /\ trace = <<>>
    /\ common_name = <<>>
    /\ result = <<>>
    /\ output_file = Absent
    /\ NoRendering

\* one call of ebird_taxonomy; the history entry records whether the file was
\* there when the call began
CallEbirdTaxonomy ==
    /\ pc = "cache"
    /\ Len(calls) < MaxCalls
    /\ \E remote \in RemoteResults :
           \E r \in {ebird_taxonomy(cache_dir, cache_file, remote)} :
               /\ cache_dir' = r.cache_dir
               /\ cache_file' = r.cache_file
               /\ calls' = Append(calls, [cached |-> cache_file # Absent,
                                          fetched |-> r.fetched, raised |-> r.raised,
                                          taxonomy |-> r.taxonomy])
    /\ UNCHANGED <<pc, taxonomy, birds_data, i, updated_bird_data,
                   non_issf_subspecies_order_keeper, log, trace, common_name, result,
                   provider, output_file, renderers>>

NextCache == CallEbirdTaxonomy

SpecCache == InitCache /\ [][NextCache]_vars

(***************************************************************************)
(* generate_html (generate_html.py 115-188) and generate_docx              *)
(* (generate_docx.py 65-183) on one official-list file                     *)
(***************************************************************************)
MaxListRows == 4    \* longest official-list file given to the renderers

\* str.lower() on the letters of the texts used here
LowerChar(c) ==
    IF c = "F" THEN "f" ELSE IF c = "A" THEN "a" ELSE IF c = "L" THEN "l"
    ELSE IF c = "S" THEN "s" ELSE IF c = "E" THEN "e" ELSE IF c = "T" THEN "t"
    ELSE IF c = "R" THEN "r" ELSE IF c = "U" THEN "u" ELSE c

lower(text) == [k \in DOMAIN text |-> LowerChar(text[k])]

\* dict.get(key, default)
GetOr(d, key, default) == IF key \in DOMAIN d THEN d[key] ELSE default

FalseText == <<"f", "a", "l", "s", "e">>

\* rows as csv.DictReader returns them: every value is a text
ListRow(order, family, status, subspecies) ==
    [comName |-> <<"n">>, order |-> order, familyComName |-> family,
     State_Status |-> Status(status), subspecies |-> subspecies]

\* rows of a file with a subspecies column, and of one without
ListRowsWithColumn ==
    {ListRow(<<"o", "1">>, <<"f", "1">>, "1", <<"F", "a", "l", "s", "e">>),
     ListRow(<<"o", "1">>, <<"f", "1">>, "1", <<"T", "r", "u", "e">>),
     ListRow(<<"o", "1">>, <<"f", "2">>, "1", <<"F", "A", "L", "S", "E">>),
     ListRow(<<"o", "2">>, <<"f", "3">>, "1", <<"F", "a", "l", "s", "e">>),
     ListRow(<<"o", "1">>, <<"f", "1">>, "1", <<>>),
     ListRow(<<"o", "1">>, <<"f", "1">>, "4", <<"F", "a", "l", "s", "e">>),
     ListRow(<<"o", "2">>, <<"f", "3">>, "4", <<"F", "a", "l", "s", "e">>),
     ListRow(<<"o", "2">>, <<"f", "3">>, "4", <<"T", "r", "u", "e">>)}

ListRowsWithoutColumn ==
    {[comName |-> <<"n">>, order |-> <<"o", "1">>, familyComName |-> <<"f", "1">>,
      State_Status |-> Status("1")],
     [comName |-> <<"n">>, order |-> <<"o", "2">>, familyComName |-> <<"f", "3">>,
      State_Status |-> Status("1")],
     [comName |-> <<"n">>, order |-> <<"o", "1">>, familyComName |-> <<"f", "1">>,
      State_Status |-> Status("4")]}

OfficialLists ==
    SeqsUpTo(ListRowsWithColumn, MaxListRows) \cup SeqsUpTo(ListRowsWithoutColumn, MaxListRows)

\* generate_html lines 146-148: the locals before the loop; out is what has
\* been written after the table definition, of is the input row an item was
\* written for
HtmlLocals ==
    [pc |-> "rows", i |-> 1, out |-> <<>>, current_order |-> <<>>,
     current_family |-> <<>>, index |-> 1, historically_occurring_section |-> FALSE]

\* lines 152-156
HtmlHistorical(h, bird) ==
    IF GetOr(bird, "State_Status", <<>>) = Status("4") /\ ~h.historically_occurring_section
    THEN [h EXCEPT !.out = Append(@, [kind |-> "historical", of |-> h.i]),
                   !.historically_occurring_section = TRUE]
    ELSE h

\* lines 158-161
HtmlOrder(h, bird) ==
    IF GetOr(bird, "order", <<>>) # h.current_order
    THEN [h EXCEPT !.current_order = bird["order"], !.current_family = <<>>,
                   !.out = Append(@, [kind |-> "order", of |-> h.i, text |-> bird["order"]])]
    ELSE h

\* lines 164-166
HtmlFamily(h, bird) ==
    IF GetOr(bird, "familyComName", <<>>) # h.current_family
    THEN [h EXCEPT !.current_family = bird["familyComName"],
                   !.out = Append(@, [kind |-> "family", of |-> h.i,
                                      text |-> bird["familyComName"]])]
    ELSE h

\* lines 171-187
\* faulty variant: rows of the historical section are numbered too
HtmlTaxon_numbers_historical(h, bird) ==
    IF lower(GetOr(bird, "subspecies", <<"F", "a", "l", "s", "e">>)) = FalseText
    THEN [h EXCEPT !.out = Append(@, [kind |-> "taxon", of |-> h.i,
                                      index_text |-> DecimalText(h.index)]),
                   !.index = @ + 1]
    ELSE [h EXCEPT !.out = Append(@, [kind |-> "taxon", of |-> h.i, index_text |-> <<>>])]

HtmlTaxon(h, bird) ==
    IF /\ lower(GetOr(bird, "subspecies", <<"F", "a", "l", "s", "e">>)) = FalseText
       /\ ~h.historically_occurring_section
    THEN [h EXCEPT !.out = Append(@, [kind |-> "taxon", of |-> h.i,
                                      index_text |-> DecimalText(h.index)]),
                   !.index = @ + 1]
    ELSE [h EXCEPT !.out = Append(@, [kind |-> "taxon", of |-> h.i, index_text |-> <<>>])]

\* lines 149-187: one iteration of the loop
\* faulty variant: the historical header is written after the row's order and
\* family headers
HtmlBody_header_late(h, bird) ==
    [HtmlTaxon(HtmlHistorical(HtmlFamily(HtmlOrder(h, bird), bird), bird), bird)
         EXCEPT !.i = @ + 1]

HtmlBody(h, bird) ==
    [HtmlTaxon(HtmlFamily(HtmlOrder(HtmlHistorical(h, bird), bird), bird), bird)
         EXCEPT !.i = @ + 1]

\* generate_docx lines 82-119: the locals before the loop; out is the table
\* rows added after the header row
DocxLocals ==
    [pc |-> "rows", i |-> 1, out |-> <<>>, current_order |-> <<>>,
     current_family |-> <<>>, index |-> 1]

\* lines 122-132
DocxOrder(d, bird) ==
    IF GetOr(bird, "order", <<>>) # d.current_order
    THEN [d EXCEPT !.current_order = GetOr(bird, "order", <<>>), !.current_family = <<>>,
                   !.out = Append(@, [kind |-> "order", of |-> d.i,
                                      text |-> GetOr(bird, "order", <<>>)])]
    ELSE d

\* lines 134-143
DocxFamily(d, bird) ==
    IF GetOr(bird, "familyComName", <<>>) # d.current_family
    THEN [d EXCEPT !.current_family = GetOr(bird, "familyComName", <<>>),
                   !.out = Append(@, [kind |-> "family", of |-> d.i,
                                      text |-> GetOr(bird, "familyComName", <<>>)])]
    ELSE d

\* lines 144-147: the first cell of a new table row is empty unless set
DocxTaxon(d, bird) ==
    IF lower(GetOr(bird, "subspecies", <<"F", "a", "l", "s", "e">>)) = FalseText
    THEN [d EXCEPT !.out = Append(@, [kind |-> "taxon", of |-> d.i,
                                      index_text |-> DecimalText(d.index)]),
                   !.index = @ + 1]
    ELSE [d EXCEPT !.out = Append(@, [kind |-> "taxon", of |-> d.i, index_text |-> <<>>])]

\* lines 120-181: one iteration of the loop
DocxBody(d, bird) == [DocxTaxon(DocxFamily(DocxOrder(d, bird), bird), bird) EXCEPT !.i = @ + 1]

\* the two programs are given the same file; birds_data is what DictReader
\* makes of it (generate_html line 125, generate_docx line 81)
InitRender ==
    /\ pc = "render"
    /\ birds_data \in OfficialLists
    /\ html = [pc |-> "idle"]
    /\ docx = [pc |-> "idle"]
    /\ provider = <<>>
    /\ taxonomy = <<>>
    /\ i = 1
    /\ updated_bird_data = <<>>
    /\ non_issf_subspecies_order_keeper = 0
    /\ log = <<>>
    /\ trace = <<>>
    /\ common_name = <<>>
    /\ result = <<>>
    /\ output_file = Absent
    /\ NoCacheUse

RenderUnchanged ==
    UNCHANGED <<pc, taxonomy, birds_data, i, updated_bird_data,
                non_issf_subspecies_order_keeper, log, trace, common_name, result,
                provider, output_file, cache>>

HtmlOpen ==
    /\ pc = "render"
    /\ html.pc = "idle"
    /\ html' = HtmlLocals
    /\ UNCHANGED docx
    /\ RenderUnchanged

HtmlRow ==
    /\ pc = "render"
    /\ html.pc = "rows"
    /\ html.i <= Len(birds_data)
    /\ html' = HtmlBody(html, birds_data[html.i])
    /\ UNCHANGED docx
    /\ RenderUnchanged

\* line 188: the loop is over, the file is closed
HtmlClose ==
    /\ pc = "render"
    /\ html.pc = "rows"
    /\ html.i > Len(birds_data)
    /\ html' = [html EXCEPT !.pc = "saved"]
    /\ UNCHANGED docx
    /\ RenderUnchanged

DocxOpen ==
    /\ pc = "render"
    /\ docx.pc = "idle"
    /\ docx' = DocxLocals
    /\ UNCHANGED html
    /\ RenderUnchanged

DocxRow ==
    /\ pc = "render"
    /\ docx.pc = "rows"
    /\ docx.i <= Len(birds_data)
    /\ docx' = DocxBody(docx, birds_data[docx.i])
    /\ UNCHANGED html
    /\ RenderUnchanged

\* line 182: the loop is over, the document is saved
DocxClose ==
    /\ pc = "render"
    /\ docx.pc = "rows"
    /\ docx.i > Len(birds_data)
    /\ docx' = [docx EXCEPT !.pc = "saved"]
    /\ UNCHANGED html
    /\ RenderUnchanged

NextRender == HtmlOpen \/ HtmlRow \/ HtmlClose \/ DocxOpen \/ DocxRow \/ DocxClose

SpecRender == InitRender /\ [][NextRender]_vars

TypeOK ==
    /\ pc \in {"start", "loop", "written", "raised", "parsed", "call", "returned",
              "fetched", "filtered", "cache", "render"}
    /\ i \in 1..(Len(birds_data) + 1)
    /\ Len(trace) = i - 1
    /\ non_issf_subspecies_order_keeper >= 0

(***************************************************************************)
(* Notions the properties are stated with, written independently of the    *)
(* operators above                                                         *)
(***************************************************************************)
RunChars == Letters \cup Whitespace \cup {"-"}

\* the longest leading run of letters, whitespace and hyphens of name
LeadingRun(name) ==
    LET n == CHOOSE n \in 0..Len(name) :
                 /\ \A k \in 1..n : name[k] \in RunChars
                 /\ n = Len(name) \/ name[n + 1] \notin RunChars
    IN  SubSeq(name, 1, n)

\* s without its trailing whitespace
TrimRight(s) ==
    LET last == CHOOSE n \in 0..Len(s) :
                    /\ n = 0 \/ s[n] \notin Whitespace
                    /\ \A k \in (n + 1)..Len(s) : s[k] \in Whitespace
    IN  SubSeq(s, 1, last)

\* s without its leading whitespace
TrimLeft(s) ==
    LET first == CHOOSE n \in 1..(Len(s) + 1) :
                     /\ n = Len(s) + 1 \/ s[n] \notin Whitespace
                     /\ \A k \in 1..(n - 1) : s[k] \in Whitespace
    IN  SubSeq(s, first, Len(s))

HasPrefix(s, prefix) ==
    /\ Len(prefix) <= Len(s)
    /\ \A k \in 1..Len(prefix) : s[k] = prefix[k]

ExactHits(name, taxa) == {k \in DOMAIN taxa : taxa[k].comName = name}
PrefixHits(prefix, taxa) == {k \in DOMAIN taxa : HasPrefix(taxa[k].comName, prefix)}
IsFirstOf(k, hits) == k \in hits /\ \A j \in hits : k <= j

Returned == pc = "returned"
ReturnedTaxon == result[1].matching_taxon
ReturnedFlag == result[1].non_issf_subspecies

(***************************************************************************)
(* C1                                                                      *)
(***************************************************************************)
\* C1 as stated: for every record T of the taxonomy, the matcher called with
\* T's comName returns T itself, and the flag false.
C1_ReturnsThatRecord ==
    Returned =>
        \A k \in ExactHits(common_name, taxonomy) :
            /\ ReturnedTaxon # None
            /\ taxonomy[ReturnedTaxon] = taxonomy[k]
            /\ ReturnedFlag = FALSE

\* C1 (amended): called with the comName of a record T, the matcher returns
\* the first record in taxonomy order whose comName equals that name, with the
\* flag false; that record is T itself when no earlier record shares T's comName.
C1_ExactReturnsFirstEqual ==
    Returned /\ ExactHits(common_name, taxonomy) # {} =>
        /\ IsFirstOf(ReturnedTaxon, ExactHits(common_name, taxonomy))
        /\ ReturnedFlag = FALSE

C1_Witness ==
    /\ Returned
    /\ Cardinality(ExactHits(common_name, taxonomy)) = 1
    /\ Len(taxonomy) >= 2
    /\ ReturnedTaxon = 2
    /\ PrefixHits(common_name, taxonomy) = {1, 2}
    /\ ReturnedFlag = FALSE

(***************************************************************************)
(* C2                                                                      *)
(***************************************************************************)
\* C2 as stated: without an exact match, the matcher returns the first record
\* whose comName starts with the longest leading run of letters, whitespace
\* and hyphens of the lookup name with trailing whitespace stripped, flag true.
C2_BaseTrailingStripped ==
    Returned /\ ExactHits(common_name, taxonomy) = {} =>
        LET baseName == TrimRight(LeadingRun(common_name))
        IN  /\ ReturnedFlag = TRUE
            /\ PrefixHits(baseName, taxonomy) # {} => ReturnedTaxon # None
            /\ ReturnedTaxon # None =>
                   IsFirstOf(ReturnedTaxon, PrefixHits(baseName, taxonomy))

\* C2 (amended): without an exact match, baseName is the longest leading run
\* of letters, whitespace and hyphens of the lookup name with leading and
\* trailing whitespace stripped, and the matcher returns the first record in
\* taxonomy order whose comName starts with baseName, with the flag true.
C2_ApproximateReturnsFirstPrefix ==
    Returned /\ ExactHits(common_name, taxonomy) = {} =>
        LET baseName == TrimLeft(TrimRight(LeadingRun(common_name)))
        IN  /\ ReturnedFlag = TRUE
            /\ result[1].base_name = baseName
            /\ PrefixHits(baseName, taxonomy) # {} => ReturnedTaxon # None
            /\ ReturnedTaxon # None =>
                   IsFirstOf(ReturnedTaxon, PrefixHits(baseName, taxonomy))

\* "a(" resolves to the second record "a-": the first one, "b", has no such prefix
C2_Witness ==
    /\ Returned
    /\ common_name = <<"a", "(">>
    /\ Len(taxonomy) = 2
    /\ taxonomy[1].comName = <<"b">>
    /\ taxonomy[2].comName = <<"a", "-">>
    /\ ReturnedTaxon = 2
    /\ ReturnedFlag = TRUE

(***************************************************************************)
(* The pass: notions the properties are stated with                        *)
(***************************************************************************)
InLoop == pc = "loop"
Handled == 1..Len(trace)

\* the base name of a lookup name and "matches nothing", from their description
BaseNameOf(name) == TrimLeft(TrimRight(LeadingRun(name)))
MatchesNothing(name, taxa) ==
    ExactHits(name, taxa) = {} /\ PrefixHits(BaseNameOf(name), taxa) = {}

\* the position in updated_bird_data (before the sort) of handled row j
OutIndex(j) == Cardinality({k \in 1..j : trace[k].appended})
Emitted(j) == updated_bird_data[OutIndex(j)]
Parent(j) == taxonomy[trace[j].matching_taxon]
KeeperBefore(j) == IF j = 1 THEN 0 ELSE trace[j - 1].keeper

\* row j was appended with the offset / without it
OffsetRow(j) == trace[j].appended /\ trace[j].non_issf_subspecies
NormalRow(j) == trace[j].appended /\ ~trace[j].non_issf_subspecies

NoMatchErrors ==
    SelectSeq(log, LAMBDA e : e.level = "error" /\ e.msg = "No matching taxon for")

(***************************************************************************)
(* C3                                                                      *)
(***************************************************************************)
\* C3: a lookup name that matches no record, neither exactly nor by base-name
\* prefix, makes the matcher return (None, True); such a row is not emitted,
\* and an error naming the row's own comName is logged for it.
C3_UnmatchedDroppedAndLogged ==
    InLoop =>
        LET unmatched == {j \in Handled : MatchesNothing(trace[j].lookup, taxonomy)}
            kept == Handled \ unmatched
        IN  /\ \A j \in unmatched :
                   /\ trace[j].matching_taxon = None
                   /\ trace[j].approximate = TRUE
                   /\ ~trace[j].appended
            /\ Len(updated_bird_data) = Cardinality(kept)
            /\ \A j \in kept :
                   LET row == updated_bird_data[Cardinality({k \in kept : k <= j})]
                   IN  /\ row.comName = birds_data[j].comName
                       /\ get(row, "Sort_as") = get(birds_data[j], "Sort_as")
            /\ Len(NoMatchErrors) = Cardinality(unmatched)
            /\ \A j \in unmatched :
                   NoMatchErrors[Cardinality({k \in unmatched : k <= j})].args
                       = <<birds_data[j].comName>>

\* a row "a(" sorted as "a" matches nothing in a taxonomy that holds only "b";
\* the row after it is emitted
C3_Witness ==
    /\ InLoop
    /\ Len(trace) = 2
    /\ taxonomy # <<>>
    /\ MatchesNothing(trace[1].lookup, taxonomy)
    /\ trace[1].lookup # birds_data[1].comName
    /\ Len(updated_bird_data) = 1
    /\ NoMatchErrors = <<[level |-> "error", msg |-> "No matching taxon for",
                          args |-> <<birds_data[1].comName>>]>>

(***************************************************************************)
(* C4                                                                      *)
(***************************************************************************)
\* rows a..b are consecutive offset rows resolved to the same record, and the
\* counter is 0 when the first of them is reached
OffsetRunFromZero(a, b) ==
    /\ KeeperBefore(a) = 0
    /\ \A k \in a..b : OffsetRow(k) /\ trace[k].matching_taxon = trace[a].matching_taxon

\* C4: in a run of consecutive non-ISSF subspecies rows against the same
\* parent P that starts with the counter at 0, the k-th row of the run gets
\* taxonOrder = P.taxonOrder + k * 0.01.
C4_OffsetsAccumulate ==
    InLoop =>
        \A b \in Handled : \A a \in 1..b :
            OffsetRunFromZero(a, b) =>
                Emitted(b).taxonOrder = Parent(a).taxonOrder + (b - a + 1) * OffsetStep

\* two rows in a row against the first record: 1.01 then 1.02
C4_Witness ==
    /\ InLoop
    /\ Len(trace) = 2
    /\ OffsetRunFromZero(1, 2)
    /\ trace[1].matching_taxon = 1
    /\ updated_bird_data[1].taxonOrder = OrderStep + OffsetStep
    /\ updated_bird_data[2].taxonOrder = OrderStep + 2 * OffsetStep

(***************************************************************************)
(* C5                                                                      *)
(***************************************************************************)
\* C5: a row that resolves as a normal match sets the counter to 0 and keeps
\* the taxonomy's own taxonOrder; the next offset row after it gets
\* parent + 0.01, however many offset rows came before the normal row.
C5_NormalRowResets ==
    InLoop =>
        \A j \in Handled :
            NormalRow(j) =>
                /\ trace[j].keeper = 0
                /\ Emitted(j).taxonOrder = Parent(j).taxonOrder
                /\ \A n \in Handled :
                       (n > j /\ OffsetRow(n) /\ \A k \in (j + 1)..(n - 1) : ~OffsetRow(k))
                           => Emitted(n).taxonOrder = Parent(n).taxonOrder + OffsetStep

\* subspecies of P, normal Q, subspecies of P: P + 0.01, Q, P + 0.01
C5_Witness ==
    /\ InLoop
    /\ Len(trace) = 3
    /\ OffsetRow(1) /\ NormalRow(2) /\ OffsetRow(3)
    /\ trace[1].matching_taxon = 1 /\ trace[2].matching_taxon = 2
    /\ trace[3].matching_taxon = 1
    /\ updated_bird_data[1].taxonOrder = OrderStep + OffsetStep
    /\ updated_bird_data[2].taxonOrder = 2 * OrderStep
    /\ updated_bird_data[3].taxonOrder = OrderStep + OffsetStep

(***************************************************************************)
(* C6                                                                      *)
(***************************************************************************)
\* the handled rows that matched, in input order
RECURSIVE KeptRows(_)
KeptRows(n) ==
    IF n = 0 THEN <<>>
    ELSE IF trace[n].appended THEN Append(KeptRows(n - 1), birds_data[n])
    ELSE KeptRows(n - 1)

\* what the loop appends for rows, starting with the counter at keeper
RECURSIVE Replay(_, _, _)
Replay(rows, taxa, keeper) ==
    IF rows = <<>> THEN <<>>
    ELSE LET r == LoopBody(Head(rows), taxa, keeper)
         IN  (IF r.appended THEN <<r.bird>> ELSE <<>>)
                 \o Replay(Tail(rows), taxa, r.keeper)

\* C6: an unmatched row leaves the counter unchanged: what every matched row
\* is given is what it would be given had the unmatched rows been removed
\* from the input.
C6_UnmatchedRowsInvisible ==
    InLoop =>
        /\ updated_bird_data = Replay(KeptRows(Len(trace)), taxonomy, 0)
        /\ \A j \in Handled : ~trace[j].appended => trace[j].keeper = KeeperBefore(j)

\* an unmatched row between two offset rows: the second one still gets + 0.02
C6_Witness ==
    /\ InLoop
    /\ Len(trace) = 3
    /\ OffsetRow(1) /\ ~trace[2].appended /\ OffsetRow(3)
    /\ trace[2].keeper = OffsetStep
    /\ Len(updated_bird_data) = 2
    /\ updated_bird_data[2].taxonOrder = Parent(3).taxonOrder + 2 * OffsetStep

(***************************************************************************)
(* C7                                                                      *)
(***************************************************************************)
\* the rows emitted from a..b are subspecies rows stacked on one parent record:
\* each was resolved to that record and given the offset (a row matched to its
\* own ISSF record is resolved to no parent)
SameParentRun(a, b) ==
    /\ OffsetRow(a) /\ OffsetRow(b)
    /\ \A k \in a..b :
           trace[k].appended =>
               OffsetRow(k) /\ trace[k].matching_taxon = trace[a].matching_taxon

\* C7: within a run of consecutive subspecies rows resolved to the same parent
\* the assigned taxonOrder values are non-decreasing in input order, and every
\* offset subspecies row's taxonOrder is strictly greater than its parent's.
C7_RunNonDecreasingAboveParent ==
    InLoop =>
        /\ \A j \in Handled :
               OffsetRow(j) =>
                   /\ Emitted(j).subspecies = TRUE
                   /\ Emitted(j).taxonOrder > Parent(j).taxonOrder
        /\ \A b \in Handled : \A a \in 1..b :
               SameParentRun(a, b) => Emitted(a).taxonOrder <= Emitted(b).taxonOrder

\* three rows stacked on one parent, each above the parent and above the last
C7_Witness ==
    /\ InLoop
    /\ Len(trace) = 3
    /\ SameParentRun(1, 3)
    /\ trace[2].appended
    /\ Parent(1).taxonOrder < updated_bird_data[1].taxonOrder
    /\ updated_bird_data[1].taxonOrder < updated_bird_data[2].taxonOrder
    /\ updated_bird_data[2].taxonOrder < updated_bird_data[3].taxonOrder

(***************************************************************************)
(* C8                                                                      *)
(***************************************************************************)
\* handled row j was treated as a non-ISSF subspecies: flagged, the counter
\* raised by 0.01 and added to the parent's taxonOrder
TreatedAsNonIssf(j) ==
    /\ Emitted(j).subspecies = TRUE
    /\ trace[j].keeper = KeeperBefore(j) + OffsetStep
    /\ Emitted(j).taxonOrder = Parent(j).taxonOrder + trace[j].keeper

\* C8 as stated: a matched row is treated as a non-ISSF subspecies exactly
\* when the match was approximate or the lookup name (the "Sort as" override
\* when present, otherwise the comName) contains "(".
C8_DecidedOnLookupName ==
    InLoop =>
        \A j \in Handled :
            trace[j].appended =>
                (TreatedAsNonIssf(j)
                    <=> (trace[j].approximate \/ "(" \in Range(trace[j].lookup)))

\* C8 (amended): a matched row is treated as a non-ISSF subspecies exactly
\* when the match was approximate or the row's own comName contains "(",
\* also when a "Sort as" override is the lookup name and differs from the
\* comName in whether it contains "(".
C8_DecidedOnComName ==
    InLoop =>
        \A j \in Handled :
            trace[j].appended =>
                (TreatedAsNonIssf(j)
                    <=> (trace[j].approximate \/ "(" \in Range(birds_data[j].comName)))

\* "a(" sorted as "a" matches "a" exactly and gets the offset; "b" sorted as
\* "a(" matches "a(" exactly and gets none
C8_Witness ==
    /\ InLoop
    /\ Len(trace) = 2
    /\ trace[1].appended /\ ~trace[1].approximate
    /\ "(" \in Range(birds_data[1].comName) /\ "(" \notin Range(trace[1].lookup)
    /\ TreatedAsNonIssf(1)
    /\ trace[2].appended /\ ~trace[2].approximate
    /\ "(" \notin Range(birds_data[2].comName) /\ "(" \in Range(trace[2].lookup)
    /\ ~TreatedAsNonIssf(2)

(***************************************************************************)
(* C9                                                                      *)
(***************************************************************************)
\* C9: a row that matches exactly and is not flagged by the approximate /
\* parenthesis test gets subspecies = (category of the matched record is
\* "issf"), keeps the record's taxonOrder, and the counter is reset to 0.
C9_ExactUnflaggedRow ==
    InLoop =>
        \A j \in Handled :
            (trace[j].appended /\ ~trace[j].approximate
                 /\ ~trace[j].non_issf_subspecies) =>
                /\ Emitted(j).subspecies = (Parent(j).category = "issf")
                /\ Emitted(j).taxonOrder = Parent(j).taxonOrder
                /\ trace[j].keeper = 0

\* an ISSF row after an offset row: flagged a subspecies, no offset, counter 0
C9_Witness ==
    /\ InLoop
    /\ Len(trace) = 2
    /\ OffsetRow(1) /\ NormalRow(2)
    /\ Parent(2).category = "issf"
    /\ updated_bird_data[2].subspecies = TRUE
    /\ updated_bird_data[2].taxonOrder = Parent(2).taxonOrder
    /\ KeeperBefore(2) = OffsetStep /\ trace[2].keeper = 0

(***************************************************************************)
(* C10                                                                     *)
(***************************************************************************)
\* C10: for a row with a non-empty "Sort as" the matcher is called with that
\* value, not with the comName; for a row whose "Sort as" is absent or empty
\* it is called with the comName.
C10_SortAsHasPriority ==
    InLoop =>
        \A j \in Handled :
            LET row == birds_data[j]
            IN  IF "Sort_as" \in DOMAIN row /\ Len(row.Sort_as) > 0
                THEN trace[j].lookup = row.Sort_as
                ELSE trace[j].lookup = row.comName

\* one row of each kind: an override that differs, an empty one, none
C10_Witness ==
    /\ InLoop
    /\ Len(trace) = 3
    /\ "Sort_as" \in DOMAIN birds_data[1] /\ birds_data[1].Sort_as # <<>>
    /\ birds_data[1].Sort_as # birds_data[1].comName
    /\ trace[1].lookup = birds_data[1].Sort_as
    /\ "Sort_as" \in DOMAIN birds_data[2] /\ birds_data[2].Sort_as = <<>>
    /\ trace[2].lookup = birds_data[2].comName
    /\ "Sort_as" \notin DOMAIN birds_data[3]
    /\ trace[3].lookup = birds_data[3].comName

(***************************************************************************)
(* The written sequence: notions the properties are stated with            *)
(***************************************************************************)
Written == pc = "written"
Historical(row) == get(row, "State_Status") = <<Status("4")>>
Positions == DOMAIN updated_bird_data

(***************************************************************************)
(* C11                                                                     *)
(***************************************************************************)
\* C11: in the sequence create_output_file writes, every row whose State
\* Status is "(4)" comes after every row with any other status, whatever
\* their taxonOrder values are.
C11_HistoricalRowsLast ==
    Written =>
        \A p \in Positions : \A q \in Positions :
            (Historical(updated_bird_data[q]) /\ ~Historical(updated_bird_data[p]))
                => p < q

\* a "(4)" row with the smaller taxonOrder was read first and is written last
C11_Witness ==
    /\ Written
    /\ Len(updated_bird_data) = 2
    /\ Historical(birds_data[1]) /\ ~Historical(birds_data[2])
    /\ Historical(updated_bird_data[2]) /\ ~Historical(updated_bird_data[1])
    /\ updated_bird_data[2].taxonOrder < updated_bird_data[1].taxonOrder

(***************************************************************************)
(* C12                                                                     *)
(***************************************************************************)
\* C12: among the rows without status "(4)", and among the rows with it, the
\* written sequence is ascending by taxonOrder compared as numbers.
C12_AscendingByNumber ==
    Written =>
        \A p \in Positions : \A q \in Positions :
            (p < q /\ Historical(updated_bird_data[p]) = Historical(updated_bird_data[q]))
                => updated_bird_data[p].taxonOrder <= updated_bird_data[q].taxonOrder

\* 10.00 was read before 9.00 and 9.01; they are written 9.00, 9.01, 10.00
C12_Witness ==
    /\ Written
    /\ Len(updated_bird_data) = 3
    /\ \A p \in Positions : ~Historical(updated_bird_data[p])
    /\ birds_data[1].taxonOrder = 10 * OrderStep
    /\ updated_bird_data[1].taxonOrder = 9 * OrderStep
    /\ updated_bird_data[2].taxonOrder = 9 * OrderStep + OffsetStep
    /\ updated_bird_data[3].taxonOrder = 10 * OrderStep

(***************************************************************************)
(* C13                                                                     *)
(***************************************************************************)
Filtered == pc = "filtered"

\* the positions of the provider's records that are neither hybrid nor domestic
Wanted ==
    {k \in DOMAIN provider :
         ~("category" \in DOMAIN provider[k]
               /\ provider[k].category \in {"hybrid", "domestic"})}

\* C13: get_taxonomy_of_interest returns exactly the provider's records whose
\* category is neither "hybrid" nor "domestic" (records with another or no
\* category included), in their original order; an empty taxonomy gives an
\* empty result and the call fails on no input.
C13_FilterKeepsExactlyTheWanted ==
    /\ pc = "fetched" => ENABLED CallFilter
    /\ Filtered =>
           /\ Len(result[1]) = Cardinality(Wanted)
           /\ \A k \in Wanted :
                  result[1][Cardinality({j \in Wanted : j <= k})] = provider[k]
           /\ provider = <<>> => result[1] = <<>>

\* a domestic record is dropped, the record without a category behind it is kept
C13_Witness ==
    /\ Filtered
    /\ Len(provider) = 2
    /\ get(provider[1], "category") = <<"domestic">>
    /\ "category" \notin DOMAIN provider[2]
    /\ result[1] = <<provider[2]>>

(***************************************************************************)
(* C14                                                                     *)
(***************************************************************************)
\* C14: filtering an already filtered list returns it unchanged.
C14_FilterIdempotent ==
    Filtered => get_taxonomy_of_interest(result[1]) = result[1]

\* two hybrids in a row were removed; filtering what is left changes nothing
C14_Witness ==
    /\ Filtered
    /\ Len(provider) = 2
    /\ get(provider[1], "category") = <<"hybrid">>
    /\ get(provider[2], "category") = <<"hybrid">>
    /\ result[1] = <<>>
    /\ get_taxonomy_of_interest(result[1]) = <<>>

(***************************************************************************)
(* C15                                                                     *)
(***************************************************************************)
\* the provider's records a row was enriched from (speciesCode names one record)
SourcesOf(row) ==
    {k \in DOMAIN provider : <<provider[k].speciesCode>> = get(row, "speciesCode")}

\* C15: no emitted row was resolved to a provider record of category "hybrid"
\* or "domestic", neither by exact match nor by base-name prefix match.
C15_NoHybridOrDomesticRow ==
    \A p \in Positions :
        /\ SourcesOf(updated_bird_data[p]) # {}
        /\ \A k \in SourcesOf(updated_bird_data[p]) :
               provider[k].category \notin {"hybrid", "domestic"}

\* the hybrid "a" stands first in the provider's list; the rows "a" (exact) and
\* "a(" (prefix) are both resolved to the species behind it
C15_Witness ==
    /\ InLoop
    /\ Len(provider) = 2
    /\ provider[1].comName = <<"a">> /\ provider[1].category = "hybrid"
    /\ provider[2].comName = <<"a">> /\ provider[2].category = "species"
    /\ Len(trace) = 2
    /\ trace[1].appended /\ ~trace[1].approximate
    /\ trace[2].appended /\ trace[2].approximate
    /\ SourcesOf(updated_bird_data[1]) = {2}
    /\ SourcesOf(updated_bird_data[2]) = {2}

(***************************************************************************)
(* C16                                                                     *)
(***************************************************************************)
\* C16: every emitted row carries the sciName, speciesCode, order and
\* familyComName of the record it was matched to, and a row without the
\* offset carries that record's taxonOrder.
C16_RowCarriesMatchedRecord ==
    InLoop =>
        \A j \in Handled :
            trace[j].appended =>
                /\ \A f \in {"sciName", "speciesCode", "order", "familyComName"} :
                       get(Emitted(j), f) = <<Parent(j)[f]>>
                /\ NormalRow(j) => get(Emitted(j), "taxonOrder") = <<Parent(j).taxonOrder>>

\* a normal row matched to the second record, then an offset row on the first
C16_Witness ==
    /\ InLoop
    /\ Len(trace) = 2
    /\ NormalRow(1) /\ trace[1].matching_taxon = 2
    /\ OffsetRow(2) /\ trace[2].matching_taxon = 1
    /\ updated_bird_data[1].sciName = taxonomy[2].sciName
    /\ updated_bird_data[1].taxonOrder = taxonomy[2].taxonOrder
    /\ updated_bird_data[2].familyComName = taxonomy[1].familyComName
    /\ updated_bird_data[2].order = taxonomy[1].order

(***************************************************************************)
(* C17                                                                     *)
(***************************************************************************)
EnrichedKeys ==
    {"sciName", "speciesCode", "order", "familyComName", "taxonOrder", "subspecies"}

\* the handled rows whose lookup name matches some record
MatchedRows == {j \in Handled : ~MatchesNothing(trace[j].lookup, taxonomy)}

\* C17: the list handed to the output writer holds exactly one enriched row
\* per matched input row, in input order, and none for an unmatched row; an
\* emitted row has all of sciName, speciesCode, order, familyComName,
\* taxonOrder and subspecies set, a dropped row none of them.
C17_OneCompleteRowPerMatch ==
    InLoop =>
        /\ Len(updated_bird_data) = Cardinality(MatchedRows)
        /\ \A j \in MatchedRows :
               LET row == updated_bird_data[Cardinality({k \in MatchedRows : k <= j})]
               IN  /\ row = birds_data[j]
                   /\ EnrichedKeys \subseteq DOMAIN row
                   /\ DOMAIN row \ EnrichedKeys = DOMAIN trace[j].input
                   /\ \A key \in DOMAIN trace[j].input : row[key] = trace[j].input[key]
        /\ \A j \in Handled \ MatchedRows :
               /\ birds_data[j] = trace[j].input
               /\ DOMAIN birds_data[j] \cap EnrichedKeys = {}

\* a matched row, a dropped row, a matched row: two complete rows in that order
C17_Witness ==
    /\ InLoop
    /\ Len(trace) = 3
    /\ MatchedRows = {1, 3}
    /\ updated_bird_data = <<birds_data[1], birds_data[3]>>
    /\ birds_data[1] # birds_data[3]
    /\ EnrichedKeys \subseteq DOMAIN updated_bird_data[1]
    /\ EnrichedKeys \subseteq DOMAIN updated_bird_data[2]
    /\ DOMAIN birds_data[2] \cap EnrichedKeys = {}

(***************************************************************************)
(* C18                                                                     *)
(***************************************************************************)
\* C18: every emitted row has a taxonOrder that is not null, in the loop and
\* when create_output_file sorts on it.
C18_TaxonOrderNeverNull ==
    \A p \in Positions :
        /\ "taxonOrder" \in DOMAIN updated_bird_data[p]
        /\ updated_bird_data[p].taxonOrder \in Nat

\* after a dropped row, an offset row and a normal row were sorted by taxonOrder
C18_Witness ==
    /\ Written
    /\ Len(trace) = 3
    /\ ~trace[1].appended /\ OffsetRow(2) /\ NormalRow(3)
    /\ Len(updated_bird_data) = 2
    /\ updated_bird_data[1].taxonOrder = OrderStep
    /\ updated_bird_data[2].taxonOrder = OrderStep + OffsetStep

(***************************************************************************)
(* C19                                                                     *)
(***************************************************************************)
HandledOnceInOrder ==
    /\ pc \in {"start", "loop", "written"}
    /\ pc # "start" =>
           /\ Len(trace) = i - 1
           /\ i <= Len(birds_data) + 1
           /\ \A j \in Handled :
                  /\ trace[j].input.comName = birds_data[j].comName
                  /\ trace[j].appended <=> j \in MatchedRows
           /\ Len(updated_bird_data) = Cardinality(MatchedRows)
    /\ Written => Len(trace) = Len(birds_data)

\* C19: the pass has no fatal path: it always reaches the output step, having
\* handled every row exactly once, in order; an unmatched row does not stop
\* it, every row behind it is still matched and, if matched, emitted.
C19_PassRunsToTheOutputStep == []HandledOnceInOrder /\ <>Written

\* the first of three rows matched nothing; the other two were emitted and
\* the output step was reached
C19_Witness ==
    /\ Written
    /\ Len(birds_data) = 3
    /\ Len(trace) = 3
    /\ taxonomy # <<>>
    /\ MatchedRows = {2, 3}
    /\ Len(updated_bird_data) = 2

(***************************************************************************)
(* C20                                                                     *)
(***************************************************************************)
LoggedWith(level, names) ==
    \E k \in DOMAIN log : log[k].level = level /\ names \subseteq Range(log[k].args)

\* C20 as stated: a row resolved by the approximate step produces a warning
\* naming the original name, the base name and the matched name; an unmatched
\* row produces an error naming the row's comName and the derived base name.
C20_WarningAndErrorAsStated ==
    InLoop =>
        \A j \in Handled :
            /\ (trace[j].appended /\ trace[j].approximate) =>
                   LoggedWith("warning", {trace[j].input.comName,
                                          BaseNameOf(trace[j].lookup),
                                          Parent(j).comName})
            /\ ~trace[j].appended =>
                   LoggedWith("error", {trace[j].input.comName,
                                        BaseNameOf(trace[j].lookup)})

\* what the handled rows 1..n leave in the log
RECURSIVE ExpectedLog(_)
ExpectedLog(n) ==
    IF n = 0 THEN <<>>
    ELSE ExpectedLog(n - 1) \o
         (IF n \in MatchedRows THEN <<>>
          ELSE <<[level |-> "error", msg |-> "No match found for",
                  args |-> <<trace[n].lookup, BaseNameOf(trace[n].lookup)>>],
                 [level |-> "error", msg |-> "No matching taxon for",
                  args |-> <<trace[n].input.comName>>]>>)

\* C20 (amended): an unmatched row produces two error-level diagnostics, one
\* naming the lookup name (the "Sort as" override when present, otherwise the
\* comName) and the derived base name, and one naming the row's own comName;
\* a row resolved by the approximate step produces no diagnostic.
C20_ErrorsOnlyForUnmatchedRows ==
    InLoop => log = ExpectedLog(Len(trace))

\* an approximate match left nothing in the log; the unmatched row behind it
\* left one error with the lookup and base name, one with the comName
C20_Witness ==
    /\ InLoop
    /\ Len(trace) = 2
    /\ trace[1].appended /\ trace[1].approximate
    /\ ~trace[2].appended
    /\ Len(log) = 2
    /\ log[1].level = "error" /\ log[2].level = "error"
    /\ log[1].args = <<trace[2].lookup, BaseNameOf(trace[2].lookup)>>
    /\ log[2].args = <<trace[2].input.comName>>

(***************************************************************************)
(* C25                                                                     *)
(***************************************************************************)
\* the offset rows among the handled rows 1..n that no normal row follows
OffsetsSinceNormal(n) ==
    {j \in 1..n : OffsetRow(j) /\ \A k \in (j + 1)..n : ~NormalRow(k)}

\* C25: after any prefix of the input the counter is 0.01 times the number of
\* offset rows handled since the last normal row (unmatched rows neither count
\* nor reset), and that is the offset an offset row gets, whatever parents the
\* rows before it resolved to.
C25_CounterCountsOffsetRows ==
    InLoop =>
        /\ non_issf_subspecies_order_keeper
               = OffsetStep * Cardinality(OffsetsSinceNormal(Len(trace)))
        /\ \A n \in Handled :
               /\ trace[n].keeper = OffsetStep * Cardinality(OffsetsSinceNormal(n))
               /\ OffsetRow(n) =>
                      Emitted(n).taxonOrder
                          = Parent(n).taxonOrder
                            + OffsetStep * Cardinality(OffsetsSinceNormal(n))

\* a subspecies of the first record, then one of the second: P + 0.01, Q + 0.02
C25_Witness ==
    /\ InLoop
    /\ Len(trace) = 2
    /\ OffsetRow(1) /\ trace[1].matching_taxon = 1
    /\ OffsetRow(2) /\ trace[2].matching_taxon = 2
    /\ updated_bird_data[1].taxonOrder = taxonomy[1].taxonOrder + OffsetStep
    /\ updated_bird_data[2].taxonOrder = taxonomy[2].taxonOrder + 2 * OffsetStep
    /\ non_issf_subspecies_order_keeper = 2 * OffsetStep

(***************************************************************************)
(* C28                                                                     *)
(***************************************************************************)
\* the sort class and number of the enriched row of input row j
HistoricalClass(j) == IF Historical(birds_data[j]) THEN 1 ELSE 0
SortsBefore(k, j) ==
    \/ HistoricalClass(k) < HistoricalClass(j)
    \/ /\ HistoricalClass(k) = HistoricalClass(j)
       /\ \/ birds_data[k].taxonOrder < birds_data[j].taxonOrder
          \/ birds_data[k].taxonOrder = birds_data[j].taxonOrder /\ k <= j

\* where a stable sort puts the enriched row of input row j
StablePlace(j) == Cardinality({k \in MatchedRows : SortsBefore(k, j)})

\* C28: the sorted sequence holds exactly the enriched rows handed in, each
\* once and unaltered, and rows of the same "(4)" class with equal taxonOrder
\* keep their input order.
C28_SortIsStablePermutation ==
    Written =>
        /\ Len(updated_bird_data) = Cardinality(MatchedRows)
        /\ \A j \in MatchedRows : updated_bird_data[StablePlace(j)] = birds_data[j]

\* "b" with an empty "Sort as", "a", "b": the two rows of the second record are
\* different rows with one taxonOrder and come out in input order behind "a"
C28_Witness ==
    /\ Written
    /\ Len(birds_data) = 3
    /\ MatchedRows = {1, 2, 3}
    /\ birds_data[1] # birds_data[3]
    /\ birds_data[1].taxonOrder = birds_data[3].taxonOrder
    /\ birds_data[2].taxonOrder < birds_data[1].taxonOrder
    /\ updated_bird_data = <<birds_data[2], birds_data[1], birds_data[3]>>

(***************************************************************************)
(* C27                                                                     *)
(***************************************************************************)
NoHitAtAll ==
    /\ ExactHits(common_name, taxonomy) = {}
    /\ PrefixHits(BaseNameOf(common_name), taxonomy) = {}

\* C27 as stated: the matcher returns None exactly when no record's comName
\* equals the lookup name and none starts with the base name; with an empty
\* base name and a non-empty taxonomy it returns the first record, flag true.
C27_EmptyBaseReturnsFirst ==
    Returned =>
        /\ ReturnedTaxon = None <=> NoHitAtAll
        /\ (BaseNameOf(common_name) = <<>> /\ taxonomy # <<>>) =>
               ReturnedTaxon = 1 /\ ReturnedFlag = TRUE

\* C27 (amended): the matcher returns None exactly when no record's comName
\* equals the lookup name and none starts with the base name; with an empty
\* base name, a non-empty taxonomy and no record whose comName equals the
\* lookup name, it returns the first record with the flag true.
C27_EmptyBaseWithoutExactReturnsFirst ==
    Returned =>
        /\ ReturnedTaxon = None <=> NoHitAtAll
        /\ (/\ BaseNameOf(common_name) = <<>>
            /\ taxonomy # <<>>
            /\ ExactHits(common_name, taxonomy) = {}) =>
               ReturnedTaxon = 1 /\ ReturnedFlag = TRUE

\* " (" has an empty base name: the first of two records that have nothing in
\* common with it comes back, flagged
C27_Witness ==
    /\ Returned
    /\ common_name = <<" ", "(">>
    /\ Len(taxonomy) = 2
    /\ taxonomy[1].comName = <<"b">>
    /\ ExactHits(common_name, taxonomy) = {}
    /\ ReturnedTaxon = 1
    /\ ReturnedFlag = TRUE

(***************************************************************************)
(* C26                                                                     *)
(***************************************************************************)
\* the records that come after the parent of handled row j in taxonomic order
LaterRecords(j) ==
    {k \in DOMAIN taxonomy : taxonomy[k].taxonOrder > Parent(j).taxonOrder}

\* C26: the taxonOrder assigned to an offset subspecies row of parent P is
\* strictly less than the taxonOrder of every record that comes after P, for
\* any number of consecutive offset rows, and in the sorted output no row of a
\* later species stands before a subspecies row of P.
C26_SubspeciesStayBelowNextRecord ==
    /\ InLoop =>
           \A j \in Handled :
               OffsetRow(j) =>
                   \A k \in LaterRecords(j) :
                       Emitted(j).taxonOrder < taxonomy[k].taxonOrder
    /\ Written =>
           \A p \in Positions : \A q \in Positions :
               (/\ p < q
                /\ updated_bird_data[p].speciesCode # updated_bird_data[q].speciesCode
                /\ updated_bird_data[q].subspecies = TRUE) =>
                   \E k \in DOMAIN taxonomy :
                       /\ taxonomy[k].speciesCode = updated_bird_data[p].speciesCode
                       /\ \E m \in DOMAIN taxonomy :
                              /\ taxonomy[m].speciesCode = updated_bird_data[q].speciesCode
                              /\ taxonomy[k].taxonOrder < taxonomy[m].taxonOrder

(***************************************************************************)
(* C22                                                                     *)
(***************************************************************************)
RoundTripFields ==
    {"sciName", "speciesCode", "order", "familyComName", "taxonOrder",
     "subspecies", "State_Status"}

\* the Python type of a value of an enriched row (lines 191-213): taxonOrder
\* is a float, subspecies a bool, the other fields are str
TypeOfEnriched(key) ==
    IF key = "taxonOrder" THEN "float" ELSE IF key = "subspecies" THEN "bool" ELSE "str"

\* every value of a row the csv reader returns is a str
TypeOfParsed(key) == "str"

\* the rows read back from the file, the rows the writer was given
Parsed == pc = "parsed"
ParsedRows == result
GivenRows == updated_bird_data

\* C22 as stated: every row written and parsed back has the same values for
\* sciName, speciesCode, order, familyComName, taxonOrder, subspecies and
\* State Status (a float or a bool is never equal to a str).
C22_ReadBackSameValues ==
    Parsed =>
        \A k \in DOMAIN ParsedRows : \A key \in RoundTripFields :
            /\ TypeOfEnriched(key) = TypeOfParsed(key)
            /\ ParsedRows[k][key] = GivenRows[k][key]

\* C22 amended: every row that was written is read back, in the order
\* written, with the same text for sciName, speciesCode, order, familyComName
\* and State Status, and with the text of taxonOrder and subspecies: float() of
\* the taxonOrder cell is the row's taxonOrder, the subspecies cell is "True"
\* or "False" as the row's subspecies is.
C22_ReadBackSameTexts ==
    Parsed =>
        /\ Len(ParsedRows) = Len(output_file.lines)
        /\ Len(ParsedRows) <= Len(GivenRows)
        /\ \A k \in DOMAIN ParsedRows :
               /\ \A key \in RoundTripFields \ {"taxonOrder", "subspecies"} :
                      ParsedRows[k][key] = GivenRows[k][key]
               /\ "." \in Range(ParsedRows[k]["taxonOrder"])
               /\ ParseFloat(ParsedRows[k]["taxonOrder"]) = GivenRows[k]["taxonOrder"]
               /\ ParsedRows[k]["subspecies"] =
                      IF GivenRows[k]["subspecies"] THEN <<"T", "r", "u", "e">>
                      ELSE <<"F", "a", "l", "s", "e">>

\* two rows were written and read back: one with a delimiter and a quote in
\* its texts, an offset taxonOrder with two decimals and subspecies True, one
\* with subspecies False
C22_Witness ==
    /\ Parsed
    /\ Len(ParsedRows) = 2
    /\ \E k \in DOMAIN GivenRows :
           /\ {",", "\""} \subseteq Range(GivenRows[k]["sciName"])
           /\ GivenRows[k]["taxonOrder"] % 10 # 0
           /\ GivenRows[k]["subspecies"]
    /\ \E k \in DOMAIN GivenRows : ~GivenRows[k]["subspecies"]

(***************************************************************************)
(* C23                                                                     *)
(***************************************************************************)
\* the matched rows of the input file that carry a field beyond comName,
\* State Status and Sort as
WithExtraField(row) == ~(DOMAIN row \subseteq Range(fieldnames))

\* C23: a matched row with extra fields is written to the output like any
\* other matched row: create_output_file does not fail and every enriched row
\* has its line in the file.
C23_ExtraFieldsPassThrough ==
    /\ pc # "raised"
    /\ (output_file # Absent /\ \E k \in DOMAIN updated_bird_data :
                                    WithExtraField(updated_bird_data[k]))
           => Len(output_file.lines) = Len(updated_bird_data)

(***************************************************************************)
(* C21                                                                     *)
(***************************************************************************)
Succeeded(n) == ~calls[n].raised

\* C21: over any sequence of ebird_taxonomy calls the remote fetch is invoked
\* exactly when the cache file is absent at the time of the call; after one
\* successful call the cache file exists, and every later call performs no
\* remote fetch, succeeds and returns the same taxonomy as that call.
C21_FetchOnceIfAbsent ==
    /\ \A n \in DOMAIN calls : calls[n].fetched <=> ~calls[n].cached
    /\ (\E n \in DOMAIN calls : Succeeded(n)) => cache_file # Absent
    /\ \A m \in DOMAIN calls : \A n \in DOMAIN calls :
           (m < n /\ Succeeded(m)) =>
               /\ calls[n].cached
               /\ ~calls[n].fetched
               /\ Succeeded(n)
               /\ calls[n].taxonomy = calls[m].taxonomy

\* a first call whose fetch failed, a second that fetched two records with a
\* quote and a backslash in their names, a third that read the file
C21_Witness ==
    /\ Len(calls) = 3
    /\ calls[1].fetched /\ calls[1].raised
    /\ calls[2].fetched /\ Succeeded(2)
    /\ Len(calls[2].taxonomy) = 2
    /\ \E k \in 1..2 : "\"" \in Range(calls[2].taxonomy[k].comName)
    /\ \E k \in 1..2 : "\\" \in Range(calls[2].taxonomy[k].comName)
    /\ ~calls[3].fetched /\ Succeeded(3)

(***************************************************************************)
(* C24                                                                     *)
(***************************************************************************)
\* the rows of the file generate_html has gone through
HtmlRunning == html.pc \in {"rows", "saved"}
HtmlSeen == 1..(html.i - 1)

HistoricalRows == {k \in DOMAIN birds_data : birds_data[k].State_Status = <<"(", "4", ")">>}
FirstHistoricalRow == CHOOSE k \in HistoricalRows : \A j \in HistoricalRows : k <= j

HistoricalHeaders == {p \in DOMAIN html.out : html.out[p].kind = "historical"}

\* C24: generate_html writes the historical header exactly once when a row
\* with State Status "(4)" has been reached, immediately before what it writes
\* for the first such row and after everything written for the rows before it,
\* and never when no row has that status.
C24_HistoricalHeaderOnceBeforeFirst ==
    HtmlRunning =>
        IF HistoricalRows \cap HtmlSeen = {} THEN HistoricalHeaders = {}
        ELSE /\ Cardinality(HistoricalHeaders) = 1
             /\ \A p \in HistoricalHeaders :
                    /\ \A q \in 1..(p - 1) : html.out[q].of < FirstHistoricalRow
                    /\ p < Len(html.out)
                    /\ html.out[p + 1].kind # "historical"
                    /\ \A q \in (p + 1)..Len(html.out) : html.out[q].of >= FirstHistoricalRow

\* the file is rendered: a row of another status, then the first "(4)" row,
\* which begins a new order, then another "(4)" row
C24_Witness ==
    /\ HtmlRunning
    /\ html.pc = "saved"
    /\ Cardinality(HistoricalRows) >= 2
    /\ FirstHistoricalRow > 1
    /\ birds_data[FirstHistoricalRow].order # birds_data[FirstHistoricalRow - 1].order

(***************************************************************************)
(* C29                                                                     *)
(***************************************************************************)
\* the text is "false" in any mix of cases
IsFalse(text) ==
    /\ Len(text) = 5
    /\ text[1] \in {"f", "F"} /\ text[2] \in {"a", "A"} /\ text[3] \in {"l", "L"}
    /\ text[4] \in {"s", "S"} /\ text[5] \in {"e", "E"}

NotSubspecies(k) ==
    "subspecies" \in DOMAIN birds_data[k] => IsFalse(birds_data[k].subspecies)

BeforeHistorical(k) == \A j \in 1..k : j \notin HistoricalRows

Numbered(k) == NotSubspecies(k) /\ BeforeHistorical(k)

\* the position of row k among the numbered rows
RankOf(k) == Cardinality({j \in 1..k : Numbered(j)})

\* the index cell generate_html wrote for row k
HtmlIndexText(k) ==
    LET p == CHOOSE p \in DOMAIN html.out :
                 html.out[p].kind = "taxon" /\ html.out[p].of = k
    IN  html.out[p].index_text

\* C29: generate_html writes one taxon row per input row, in file order; the
\* rows whose subspecies field is "false" (in any case, or absent) and that
\* stand before the first "(4)" row are numbered 1, 2, 3, ... without gaps;
\* every other row has an empty index.
C29_NumberedBeforeHistorical ==
    HtmlRunning =>
        /\ \A k \in HtmlSeen :
               Cardinality({p \in DOMAIN html.out :
                                html.out[p].kind = "taxon" /\ html.out[p].of = k}) = 1
        /\ \A k \in HtmlSeen :
               IF Numbered(k)
               THEN /\ HtmlIndexText(k) # <<>>
                    /\ NumberOf(HtmlIndexText(k)) = RankOf(k)
               ELSE HtmlIndexText(k) = <<>>

\* a row numbered 1, a subspecies row, a row numbered 2 written "FALSE", and a
\* "(4)" row that is not a subspecies
C29_Witness ==
    /\ HtmlRunning
    /\ html.pc = "saved"
    /\ Len(birds_data) = 4
    /\ Numbered(1) /\ ~NotSubspecies(2) /\ Numbered(3)
    /\ birds_data[3].subspecies = <<"F", "A", "L", "S", "E">>
    /\ 4 \in HistoricalRows /\ NotSubspecies(4)
    /\ HtmlIndexText(3) = <<"2">>

(***************************************************************************)
(* C30                                                                     *)
(***************************************************************************)
DocxIndexText(k) ==
    LET p == CHOOSE p \in DOMAIN docx.out :
                 docx.out[p].kind = "taxon" /\ docx.out[p].of = k
    IN  docx.out[p].index_text

\* C30: generate_html and generate_docx number the same rows of the file and
\* give each row the same index number.
C30_RenderersNumberAlike ==
    (HtmlRunning /\ docx.pc \in {"rows", "saved"}) =>
        \A k \in HtmlSeen \cap 1..(docx.i - 1) : HtmlIndexText(k) = DocxIndexText(k)

====
